---------------------------- MODULE Spec2Model ----------------------------
(***************************************************************************)
(* Protocol engine of the Jacuzzi / Sundance RS485 bridge                  *)
(* (app/jacuzziRS485.py, app/sundanceRS485.py).                            *)
(*                                                                         *)
(* One session object (spa) of one of the two dialects, its receive loop   *)
(* (listen), the connection supervisor (check_connection_status) and the   *)
(* command calls made by adapters.  Frames are byte sequences; a Python    *)
(* index data[k] is written D(data, k).  Temperatures are held as twice    *)
(* their value (half degrees), so 71.0 is 142 and 127.5 is 255.            *)
(***************************************************************************)
EXTENDS Integers, Sequences, FiniteSets, TLC

\* ------------------------------------------------------------------ bounds
\* seconds on the wall clock when the session object is constructed
StartTime == 1000
\* seconds that pass in one Tick of the wall clock
TickSeconds == 100
\* number of Ticks after which the modelled clock stops
MaxTicks == 1
\* longest transmit queue explored
MaxQueue == 2
\* failed connect attempts in a row are counted modulo this number
ConnectCountMod == 3
\* most payload bytes after channel, flag and type given to the frame codec
MaxPayload == 2
\* the setpoint of the spa controller when it sends its first status frame,
\* in half degrees
PanelStart == 69

\* the largest msg_limit of listen_for_mtype explored
MaxReads == 2

\* ------------------------------------------------------- program constants
M_STARTEND                             == 126
CLIENT_CLEAR_TO_SEND                   == 0
CHANNEL_ASSIGNMENT_REQ                 == 1
CHANNEL_ASSIGNMENT_RESPONSE            == 2
CHANNEL_ASSIGNMENT_ACK                 == 3
EXISTING_CLIENT_REQ                    == 4
EXISTING_CLIENT_RESPONSE               == 5
CLEAR_TO_SEND                          == 6
NOTHING_TO_SEND                        == 7
STATUS_UPDATE                          == 22
LIGHTS_UPDATE                          == 35
CC_REQ                                 == 23
DETECT_CHANNEL_STATE_START             == 0
DETECT_CHANNEL_STATE_CHANNEL_NOT_FOUND == 5
NO_CHANGE_REQUESTED                    == -1
CHECKS_BEFORE_RETRY                    == 2
TSCALE_F                               == 0
TSCALE_C                               == 1
MAX_PUMPS                              == 6
timeout                                == 90
\* await asyncio.sleep(1) at the end of a pass of check_connection_status
RetryDelay                             == 1

\* Python's None, for fields that hold a number otherwise
None == -1000

\* ---------------------------------------------------------- byte helpers
RECURSIVE BitXor(_, _)
BitXor(a, b) ==
    IF a = 0 THEN b
    ELSE IF b = 0 THEN a
    ELSE ((a + b) % 2) + 2 * BitXor(a \div 2, b \div 2)

RECURSIVE BitAnd(_, _)
BitAnd(a, b) ==
    IF a = 0 \/ b = 0 THEN 0
    ELSE ((a % 2) * (b % 2)) + 2 * BitAnd(a \div 2, b \div 2)

RECURSIVE Pow2(_)
Pow2(n) == IF n = 0 THEN 1 ELSE 2 * Pow2(n - 1)

\* data >> n
Shr(a, n) == a \div Pow2(n)

\* Python index: data[k]
D(data, k) == data[k + 1]

\* Python slice: data[i:j]
Slice(data, i, j) == IF j <= i THEN << >> ELSE SubSeq(data, i + 1, j)

\* one byte of the CRC-8 (polynomial 7), bit by bit
RECURSIVE crc_bits(_, _)
crc_bits(c, n) ==
    IF n = 0 THEN c
    ELSE crc_bits(IF c >= 128 THEN BitXor((2 * c) % 256, 7) ELSE (2 * c) % 256,
                  n - 1)

RECURSIVE crc_fold(_, _, _)
crc_fold(c, data, length) ==
    IF length = 0 \/ data = << >> THEN c
    ELSE LET c1 == crc_bits(BitXor(c, Head(data)), 8)
         IN  IF c1 \in 0..255 THEN crc_fold(c1, Tail(data), length - 1) ELSE c1

\* checksum of the first length bytes of data: CRC-8, initial value 2,
\* final xor 2 (reproduces the checksum byte of every entry of button_codes)
balboa_calc_cs(data, length) == BitXor(crc_fold(2, data, length), 2)

\* a faulty envelope whose length byte leaves itself out
EncodeFrame_len(bytes) ==
    LET message_length == Len(bytes) + 1
        head == <<message_length>> \o bytes
    IN  <<M_STARTEND>> \o head
          \o <<balboa_calc_cs(head, message_length), M_STARTEND>>

\* a faulty envelope that reserves one byte too few for bytes, so the last
\* of them is lost
EncodeFrame_short(bytes) ==
    LET message_length == Len(bytes) + 1
        head == <<message_length>> \o SubSeq(bytes, 1, Len(bytes) - 1)
    IN  <<M_STARTEND>> \o head
          \o <<balboa_calc_cs(head, message_length - 1), M_STARTEND>>

\* the envelope send_message puts around bytes = channel, flag, type, payload
EncodeFrame(bytes) ==
    LET message_length == Len(bytes) + 2
        head == <<message_length>> \o bytes
    IN  <<M_STARTEND>> \o head
          \o <<balboa_calc_cs(head, message_length - 1), M_STARTEND>>

\* the frame codec's decode: the sentinels, the length byte and the
\* checksum are validated, and the bytes between the length byte and the
\* checksum are returned
decode(rawBytes) ==
    IF Len(rawBytes) < 5 THEN "Truncated"
    ELSE IF rawBytes[1] # M_STARTEND \/ rawBytes[Len(rawBytes)] # M_STARTEND
    THEN "BadSentinel"
    ELSE IF rawBytes[2] # Len(rawBytes) - 2 THEN "Truncated"
    ELSE IF balboa_calc_cs(Slice(rawBytes, 1, rawBytes[2]), rawBytes[2] - 1)
                # rawBytes[Len(rawBytes) - 1]
    THEN "ChecksumMismatch"
    ELSE Slice(rawBytes, 2, rawBytes[2])

\* the pre-encoded button presses of the Sundance dialect
button_codes ==
    [temp_up      |-> <<126, 6, 16, 191, 23, 1, 124, 126>>,
     temp_down    |-> <<126, 6, 16, 191, 23, 2, 117, 126>>,
     jet_1        |-> <<126, 6, 16, 191, 23, 4, 103, 126>>,
     jet_2        |-> <<126, 6, 16, 191, 23, 5, 96, 126>>,
     menu         |-> <<126, 6, 16, 191, 23, 30, 33, 126>>,
     clear_ray    |-> <<126, 6, 16, 191, 23, 15, 86, 126>>,
     light        |-> <<126, 6, 16, 191, 23, 17, 12, 126>>,
     light_colour |-> <<126, 6, 16, 191, 23, 18, 5, 126>>]

\* raw byte -> twice the temperature in C
temp_convert ==
    48 :> 48 @@ 47 :> 49 @@ 51 :> 50 @@ 50 :> 51 @@ 53 :> 52 @@ 52 :> 53 @@
    55 :> 54 @@ 54 :> 55 @@ 57 :> 56 @@ 56 :> 57 @@ 59 :> 58 @@ 58 :> 59 @@
    61 :> 60 @@ 60 :> 61 @@ 63 :> 62 @@ 62 :> 63 @@ 65 :> 64 @@ 64 :> 65 @@
    67 :> 66 @@ 66 :> 67 @@ 69 :> 68 @@ 68 :> 69 @@ 71 :> 70 @@ 70 :> 71 @@
    73 :> 72 @@ 72 :> 73 @@ 75 :> 74 @@ 74 :> 75 @@ 77 :> 76 @@ 76 :> 77 @@
    79 :> 78 @@ 78 :> 79 @@ 81 :> 80

\* raw byte -> twice the set temperature in C
set_temp_convert ==
    171 :> 80 @@ 180 :> 79 @@ 181 :> 78 @@ 182 :> 77 @@ 183 :> 76 @@ 176 :> 75 @@
    177 :> 74 @@ 178 :> 73 @@ 179 :> 72 @@ 188 :> 71 @@ 189 :> 70 @@ 190 :> 69 @@
    191 :> 68 @@ 184 :> 67 @@ 185 :> 66 @@ 186 :> 65 @@ 187 :> 64 @@ 196 :> 63 @@
    197 :> 62 @@ 198 :> 61 @@ 199 :> 60 @@ 192 :> 59 @@ 193 :> 58 @@ 194 :> 57 @@
    195 :> 56 @@ 204 :> 55 @@ 205 :> 54 @@ 206 :> 53 @@ 207 :> 52 @@ 200 :> 51 @@
    201 :> 50 @@ 202 :> 49 @@ 203 :> 48 @@ 212 :> 47 @@ 213 :> 46 @@ 214 :> 45 @@
    215 :> 44 @@ 208 :> 43 @@ 209 :> 42 @@ 210 :> 41 @@ 211 :> 40 @@ 220 :> 39 @@
    221 :> 38 @@ 222 :> 37


\* ------------------------------------------------------------------- state
VARIABLES
    dialect,    \* "sundance" (SundanceRS485) or "jacuzzi" (JacuzziRS485)
    spa,        \* the session object: its fields, named as in the source
    now,        \* time.time(), in seconds
    written,    \* the frames the last step handed to writer.write, in order
    listen_pc,  \* the receive loop: "loop", or "dead" once an exception
                \* has ended the task
    last,       \* the last step taken: operation, arguments, frame read,
                \* exception raised, whether it assigned lastupd
    statlog,    \* the last two status frames processed, oldest first
    offered,    \* whether a ChannelAssignmentResponse has been processed
    scenario,   \* how many frames of the end-to-end scenario have been
                \* processed, in order, since construction; -1 once another
                \* frame has been processed
    check_task, \* the check_connection_status task: pc is "loop", or "dead"
                \* once an exception has ended it; connects counts the
                \* failed calls of connect in a row, modulo ConnectCountMod
    panel,      \* the spa controller at the other end of the bus, once it
                \* has sent a status frame of its own: set is its setpoint
                \* in half degrees, quiet the number of its status frames
                \* processed since the one that queued a button press (at
                \* most CHECKS_BEFORE_RETRY); set is None before
    lfm,        \* a call of JacuzziRS485.listen_for_mtype: pc is "idle",
                \* "reading" between two reads, "done" once it returned ret,
                \* or "dead" once an exception left it; want is msg_type,
                \* left the iterations of its loop still to run
    requested   \* whether this client has written a ChannelAssignmentRequest
                \* that no ChannelAssignmentResponse has answered yet

vars == <<dialect, spa, now, written, listen_pc, last, statlog, offered, scenario,
          check_task, panel, lfm, requested>>

\* an optional value: << >> is None, <<x>> holds x
NoneSeq == << >>
Some(x) == <<x>>

\* the argument of send_CCmessage: a bytes object or an int
CCBytes(b) == [isbytes |-> TRUE, b |-> b, n |-> 0]
CCInt(n) == [isbytes |-> FALSE, b |-> << >>, n |-> n]

\* [0] * n
RECURSIVE Zeros(_)
Zeros(n) == IF n = 0 THEN << >> ELSE <<0>> \o Zeros(n - 1)

\* x in list
InList(x, list) == \E i \in 1..Len(list) : list[i] = x

\* list.sort()
RECURSIVE SortList(_)
SortList(list) ==
    IF list = << >> THEN << >>
    ELSE LET m == CHOOSE i \in 1..Len(list) :
                      \A j \in 1..Len(list) : list[i] <= list[j]
         IN  <<list[m]>> \o SortList(SubSeq(list, 1, m - 1)
                                        \o SubSeq(list, m + 1, Len(list)))

\* the object after __init__ of either class
InitSpa(d) ==
    [connected           |-> FALSE,
     connection_state    |-> "Disconnected",
     channel             |-> None,
     discoveredChannels  |-> << >>,
     activeChannels      |-> << >>,
     detectChannelState  |-> DETECT_CHANNEL_STATE_START,
     queue               |-> << >>,
     lastupd             |-> 0,
     prior_status        |-> NoneSeq,
     prev_chksums        |-> << >>,
     time_hour           |-> 0,
     time_minute         |-> 0,
     curtemp             |-> 0,
     settemp             |-> 0,
     tempscale           |-> TSCALE_C,
     pump_array          |-> IF d = "sundance" THEN <<1, 1, 1, 0, 0, 0>>
                                               ELSE <<0, 2, 1, 0, 0, 0>>,
     pump_status         |-> <<0, 0, 0, 0, 0, 0>>,
     target_pump_status  |-> <<NO_CHANGE_REQUESTED, NO_CHANGE_REQUESTED,
                               NO_CHANGE_REQUESTED, NO_CHANGE_REQUESTED,
                               NO_CHANGE_REQUESTED, NO_CHANGE_REQUESTED>>,
     targetTemp          |-> 2 * NO_CHANGE_REQUESTED,
     checkCounter        |-> 0]

\* what a handler leaves behind: the object, the frames written, the
\* exception raised ("none" when it returned), whether lastupd was assigned
Res(s, out, exc) == [s |-> s, out |-> out, exc |-> exc, upd |-> FALSE]

\* the same, from a handler that assigned lastupd
ResU(s, out, exc) == [s |-> s, out |-> out, exc |-> exc, upd |-> TRUE]

\* list[k] = v, with Python's index
ListSet(list, k, v) == [list EXCEPT ![k + 1] = v]

\* largest value the model keeps in checkCounter: the code only tests
\* checkCounter > CHECKS_BEFORE_RETRY, so larger values behave alike
MaxCheckCounter == 4

\* --------------------------------------------------------------- Sundance
\* SundanceRS485.setMyChan (the NTS frame it builds is never written)
setMyChan(s, chan) == [s EXCEPT !.channel = chan]

\* a faulty send_CCmessage that hands val to the writer at once instead of
\* queueing it
send_CCmessage_direct(s, val) ==
    IF ~s.connected THEN Res(s, << >>, "none")
    ELSE IF s.channel = None THEN Res(s, << >>, "none")
    ELSE IF ~val.isbytes THEN Res(s, << >>, "AttributeError")
    ELSE Res(s, <<val.b>>, "none")

\* SundanceRS485.send_CCmessage: queue val for the next transmit grant;
\* val.hex() in the log line raises for an int
send_CCmessage(s, val) ==
    IF ~s.connected THEN Res(s, << >>, "none")
    ELSE IF s.channel = None THEN Res(s, << >>, "none")
    ELSE IF ~val.isbytes THEN Res(s, << >>, "AttributeError")
    ELSE Res([s EXCEPT !.queue = Append(@, val.b)], << >>, "none")

\* SundanceRS485.xormsg
RECURSIVE xormsg(_)
xormsg(data) ==
    IF Len(data) < 2 THEN << >>
    ELSE <<BitXor(BitXor(data[1], data[2]), 1)>>
             \o xormsg(SubSeq(data, 3, Len(data)))

\* parse_C4status_update, the comparison with prior_status: the loop reads
\* prior_status[i] for every i below len(data) until a byte differs
C4status_detect(s, d) ==
    IF s.prior_status # NoneSeq
    THEN LET prior == s.prior_status[1]
             n == IF Len(d) < Len(prior) THEN Len(d) ELSE Len(prior)
         IN  IF \E i \in 1..n : d[i] # prior[i]
             THEN [s |-> s, exc |-> "none", have_new_data |-> TRUE]
             ELSE IF Len(d) > Len(prior)
             THEN [s |-> s, exc |-> "IndexError", have_new_data |-> FALSE]
             ELSE [s |-> s, exc |-> "none", have_new_data |-> FALSE]
    ELSE [s |-> [s EXCEPT !.prior_status = Some(Zeros(Len(d)))],
          exc |-> "none", have_new_data |-> TRUE]

\* parse_C4status_update, the field extraction, in the order of the source:
\* a missing byte raises IndexError, a byte that is no key of the
\* conversion table raises KeyError, and the fields assigned before stay
C4status_decode(s, d) ==
    IF Len(d) < 1 THEN [s |-> s, exc |-> "IndexError"]
    ELSE LET s1 == [s EXCEPT !.time_hour = BitXor(D(d, 0), 6)] IN
    IF Len(d) < 12 THEN [s |-> s1, exc |-> "IndexError"]
    ELSE LET circ == BitAnd(Shr(D(d, 1), 6), 1)
             s2 == [s1 EXCEPT !.time_minute = D(d, 11),
                              !.pump_status =
                                  ListSet(ListSet(@, 1, BitAnd(Shr(D(d, 1), 2), 1)),
                                          2, circ)]
         IN
    IF D(d, 4) \notin DOMAIN set_temp_convert THEN [s |-> s2, exc |-> "KeyError"]
    ELSE LET s3 == [s2 EXCEPT !.settemp = set_temp_convert[D(d, 4)]] IN
    IF Len(d) < 15 THEN [s |-> s3, exc |-> "IndexError"]
    ELSE IF D(d, 3) \notin DOMAIN temp_convert THEN [s |-> s3, exc |-> "KeyError"]
    ELSE [s |-> [s3 EXCEPT !.curtemp = temp_convert[D(d, 3)],
                           !.pump_status =
                               ListSet(@, 0, BitAnd(Shr(D(d, 2), 4), 1))],
          exc |-> "none"]

\* a faulty temperature reconciliation that presses on every status frame
\* while the target is not met
C4status_reconcile_temp_eager(s) ==
    IF /\ s.settemp # s.targetTemp
       /\ s.targetTemp # 2 * NO_CHANGE_REQUESTED
    THEN LET r == send_CCmessage(s,
                      CCBytes(IF s.targetTemp < s.settemp
                              THEN button_codes.temp_down
                              ELSE button_codes.temp_up))
         IN  [s |-> IF r.exc = "none" THEN [r.s EXCEPT !.checkCounter = 0]
                                      ELSE r.s,
              exc |-> r.exc, sendCmd |-> FALSE]
    ELSE IF s.settemp = s.targetTemp
    THEN [s |-> [s EXCEPT !.targetTemp = 2 * NO_CHANGE_REQUESTED],
          exc |-> "none", sendCmd |-> FALSE]
    ELSE [s |-> s, exc |-> "none", sendCmd |-> TRUE]

\* parse_C4status_update, "Check that targetTemp is setTemp"
C4status_reconcile_temp(s) ==
    IF /\ s.settemp # s.targetTemp
       /\ s.targetTemp # 2 * NO_CHANGE_REQUESTED
       /\ s.checkCounter > CHECKS_BEFORE_RETRY
    THEN LET r == send_CCmessage(s,
                      CCBytes(IF s.targetTemp < s.settemp
                              THEN button_codes.temp_down
                              ELSE button_codes.temp_up))
         IN  [s |-> IF r.exc = "none" THEN [r.s EXCEPT !.checkCounter = 0]
                                      ELSE r.s,
              exc |-> r.exc, sendCmd |-> FALSE]
    ELSE IF s.settemp = s.targetTemp
    THEN [s |-> [s EXCEPT !.targetTemp = 2 * NO_CHANGE_REQUESTED],
          exc |-> "none", sendCmd |-> FALSE]
    ELSE [s |-> s, exc |-> "none", sendCmd |-> TRUE]

\* parse_C4status_update, the loop over target_pump_status, from pump i on
RECURSIVE C4status_reconcile_pumps(_, _, _)
C4status_reconcile_pumps(s, i, sendCmd) ==
    IF i = Len(s.target_pump_status)
    THEN [s |-> s, exc |-> "none", sendCmd |-> sendCmd]
    ELSE LET ps == D(s.pump_status, i)
             tg == D(s.target_pump_status, i)
         IN
    IF ps # tg /\ tg # NO_CHANGE_REQUESTED
    THEN IF s.checkCounter > CHECKS_BEFORE_RETRY
         THEN LET r == send_CCmessage(s,
                           CCInt(IF i = 0 THEN 228 ELSE IF i = 1 THEN 229 ELSE 239))
              IN  IF r.exc # "none"
                  THEN [s |-> r.s, exc |-> r.exc, sendCmd |-> sendCmd]
                  ELSE C4status_reconcile_pumps(
                           [r.s EXCEPT !.checkCounter = NO_CHANGE_REQUESTED],
                           i + 1, sendCmd)
         ELSE C4status_reconcile_pumps(s, i + 1, sendCmd)
    ELSE IF ps = tg
    THEN C4status_reconcile_pumps(
             [s EXCEPT !.target_pump_status = ListSet(@, i, -1)], i + 1, sendCmd)
    ELSE C4status_reconcile_pumps(s, i + 1, TRUE)

\* parse_C4status_update, the end: lastupd and prior_status are written only
\* for new data; prior_status[i] = data[i] raises past the end of prior_status
C4status_commit(s, d, have_new_data, t) ==
    IF ~have_new_data THEN Res(s, << >>, "none")
    ELSE LET prior == s.prior_status[1]
             s1 == [s EXCEPT !.lastupd = t]
         IN  IF Len(d) > Len(prior)
             THEN ResU([s1 EXCEPT !.prior_status = Some(SubSeq(d, 1, Len(prior)))],
                       << >>, "IndexError")
             ELSE ResU([s1 EXCEPT !.prior_status =
                            Some(d \o SubSeq(prior, Len(d) + 1, Len(prior)))],
                       << >>, "none")

\* SundanceRS485.parse_C4status_update; t is time.time()
parse_C4status_update(s, data, t) ==
    LET d == xormsg(Slice(data, 5, Len(data) - 2))
        a == C4status_detect(s, d)
    IN  IF a.exc # "none" THEN Res(a.s, << >>, a.exc)
        ELSE LET b == C4status_decode(a.s, d) IN
        IF b.exc # "none" THEN Res(b.s, << >>, b.exc)
        ELSE LET c == C4status_reconcile_temp(b.s) IN
        IF c.exc # "none" THEN Res(c.s, << >>, c.exc)
        ELSE LET p == C4status_reconcile_pumps(c.s, 0, c.sendCmd) IN
        IF p.exc # "none" THEN Res(p.s, << >>, p.exc)
        ELSE LET s5 == IF p.sendCmd
                       THEN [p.s EXCEPT !.checkCounter =
                                 IF @ < MaxCheckCounter THEN @ + 1 ELSE @]
                       ELSE p.s
             IN  C4status_commit(s5, d, a.have_new_data, t)


\* listen, mtype == CLIENT_CLEAR_TO_SEND: ask for a channel once the probe
\* counter has reached the threshold
Sundance_CCTS(s) ==
    IF /\ s.channel = None
       /\ s.detectChannelState = DETECT_CHANNEL_STATE_CHANNEL_NOT_FOUND
    THEN Res(s, <<EncodeFrame(<<254, 191, CHANNEL_ASSIGNMENT_REQ, 2, 241, 115>>)>>,
             "none")
    ELSE Res(s, << >>, "none")

\* listen, mtype == CHANNEL_ASSIGNMENT_RESPONCE: take data[5], acknowledge
Sundance_CARESP(s, data) ==
    LET s1 == setMyChan(s, D(data, 5))
    IN  Res(s1, <<EncodeFrame(<<s1.channel, 191, CHANNEL_ASSIGNMENT_ACK>>)>>, "none")

\* listen, mtype == EXISTING_CLIENT_REQ: data[2] = self.channel raises for
\* None, and data[9] lies past the end of bytearray(9)
Sundance_ECR(s) ==
    IF s.channel = None THEN Res(s, << >>, "TypeError")
    ELSE Res(s, << >>, "IndexError")

\* a faulty CLEAR_TO_SEND branch that sends on any discovered channel's grant
Sundance_CTS_any(s, channel) ==
    IF ~InList(channel, s.discoveredChannels)
    THEN Res([s EXCEPT !.discoveredChannels = Append(@, channel)], << >>, "none")
    ELSE IF s.queue = << >>
    THEN Res(s, << >>, "none")
    ELSE Res([s EXCEPT !.queue = Tail(@)], <<Head(s.queue)>>, "none")

\* a faulty CLEAR_TO_SEND branch that also sends on the grant that makes a
\* channel known
Sundance_CTS_first(s, channel) ==
    LET s0 == IF ~InList(channel, s.discoveredChannels)
              THEN [s EXCEPT !.discoveredChannels = Append(@, channel)]
              ELSE s
    IN  IF channel = s0.channel /\ s0.queue # << >>
        THEN Res([s0 EXCEPT !.queue = Tail(@)], <<Head(s0.queue)>>, "none")
        ELSE Res(s0, << >>, "none")

\* a faulty CLEAR_TO_SEND branch that keeps only the channel granted last
Sundance_CTS_latest(s, channel) ==
    IF ~InList(channel, s.discoveredChannels)
    THEN Res([s EXCEPT !.discoveredChannels = <<channel>>], << >>, "none")
    ELSE IF channel = s.channel
    THEN IF s.queue = << >>
         THEN Res(s, << >>, "none")
         ELSE Res([s EXCEPT !.queue = Tail(@)], <<Head(s.queue)>>, "none")
    ELSE Res(s, << >>, "none")

\* listen, mtype == CLEAR_TO_SEND
Sundance_CTS(s, channel) ==
    IF ~InList(channel, s.discoveredChannels)
    THEN Res([s EXCEPT !.discoveredChannels = Append(@, channel)], << >>, "none")
    ELSE IF channel = s.channel
    THEN IF s.queue = << >>
         THEN Res(s, << >>, "none")
         ELSE Res([s EXCEPT !.queue = Tail(@)], <<Head(s.queue)>>, "none")
    ELSE Res(s, << >>, "none")

\* a faulty CC_REQ branch that counts a frame of a sender it sees for the
\* first time as well
Sundance_CCREQ_count_all(s, channel) ==
    LET s0 == IF ~InList(channel, s.activeChannels)
              THEN [s EXCEPT !.activeChannels = Append(@, channel)]
              ELSE s
    IN  IF s0.detectChannelState < DETECT_CHANNEL_STATE_CHANNEL_NOT_FOUND
        THEN Res([s0 EXCEPT !.detectChannelState = @ + 1], << >>, "none")
        ELSE Res(s0, << >>, "none")

\* the first channel of the sorted discovered list that is not active,
\* or None
FirstFree(discovered, active) ==
    LET free == {i \in 1..Len(discovered) : ~InList(discovered[i], active)}
    IN  IF free = {} THEN None
        ELSE discovered[CHOOSE i \in free : \A j \in free : i <= j]

\* a faulty CC_REQ branch that looks for a free channel again on every
\* broadcast once the counter is at the threshold
Sundance_CCREQ_retry(s, channel) ==
    IF ~InList(channel, s.activeChannels)
    THEN Res([s EXCEPT !.activeChannels = Append(@, channel)], << >>, "none")
    ELSE LET s1 == IF s.detectChannelState < DETECT_CHANNEL_STATE_CHANNEL_NOT_FOUND
                   THEN [s EXCEPT !.detectChannelState = @ + 1]
                   ELSE s
         IN  IF s1.detectChannelState = DETECT_CHANNEL_STATE_CHANNEL_NOT_FOUND
                /\ s1.channel = None
             THEN LET s2 == [s1 EXCEPT !.discoveredChannels = SortList(@)]
                      chan == FirstFree(s2.discoveredChannels, s2.activeChannels)
                  IN  IF chan = None THEN Res(s2, << >>, "none")
                      ELSE Res(setMyChan(s2, chan), << >>, "none")
             ELSE Res(s1, << >>, "none")

\* a faulty CC_REQ branch that counts without looking at the threshold
Sundance_CCREQ_unbounded(s, channel) ==
    IF ~InList(channel, s.activeChannels)
    THEN Res([s EXCEPT !.activeChannels = Append(@, channel)], << >>, "none")
    ELSE Res([s EXCEPT !.detectChannelState = @ + 1], << >>, "none")

\* listen, mtype == CC_REQ
Sundance_CCREQ(s, channel) ==
    IF ~InList(channel, s.activeChannels)
    THEN Res([s EXCEPT !.activeChannels = Append(@, channel)], << >>, "none")
    ELSE IF s.detectChannelState < DETECT_CHANNEL_STATE_CHANNEL_NOT_FOUND
    THEN LET s1 == [s EXCEPT !.detectChannelState = @ + 1] IN
         IF s1.detectChannelState = DETECT_CHANNEL_STATE_CHANNEL_NOT_FOUND
         THEN LET s2 == [s1 EXCEPT !.discoveredChannels = SortList(@)]
                  chan == FirstFree(s2.discoveredChannels, s2.activeChannels)
              IN  IF chan = None THEN Res(s2, << >>, "none")
                  ELSE Res(setMyChan(s2, chan), << >>, "none")
         ELSE Res(s1, << >>, "none")
    ELSE Res(s, << >>, "none")

\* a faulty dispatch that takes every type byte it does not know for a
\* button broadcast
Sundance_dispatch_default(s, data, t) ==
    LET channel == D(data, 2)
        mtype == D(data, 4)
    IN  IF mtype = STATUS_UPDATE THEN parse_C4status_update(s, data, t)
        ELSE IF mtype = CLIENT_CLEAR_TO_SEND THEN Sundance_CCTS(s)
        ELSE IF mtype = CHANNEL_ASSIGNMENT_RESPONSE THEN Sundance_CARESP(s, data)
        ELSE IF mtype = EXISTING_CLIENT_REQ THEN Sundance_ECR(s)
        ELSE IF mtype = CLEAR_TO_SEND THEN Sundance_CTS(s, channel)
        ELSE Sundance_CCREQ(s, channel)

\* SundanceRS485.listen, one message read: the dispatch on data[4]
Sundance_dispatch(s, data, t) ==
    LET channel == D(data, 2)
        mtype == D(data, 4)
    IN  IF mtype = STATUS_UPDATE THEN parse_C4status_update(s, data, t)
        ELSE IF mtype = CLIENT_CLEAR_TO_SEND THEN Sundance_CCTS(s)
        ELSE IF mtype = CHANNEL_ASSIGNMENT_RESPONSE THEN Sundance_CARESP(s, data)
        ELSE IF mtype = EXISTING_CLIENT_REQ THEN Sundance_ECR(s)
        ELSE IF mtype = CLEAR_TO_SEND THEN Sundance_CTS(s, channel)
        ELSE IF mtype = CC_REQ THEN Sundance_CCREQ(s, channel)
        ELSE Res(s, << >>, "none")

\* self.tmin[self.temprange][self.tempscale] and self.tmax[...] of the
\* Sundance object (temprange 1, Celsius): 26.0 and 40.0, as half degrees
tmin == 52
tmax == 80

\* a faulty send_temp_change that takes any temperature
send_temp_change_any(s, newtemp) ==
    Res([s EXCEPT !.targetTemp = newtemp], << >>, "none")

\* SundanceRS485.send_temp_change; newtemp is in half degrees
send_temp_change(s, newtemp) ==
    IF newtemp < tmin \/ newtemp > tmax THEN Res(s, << >>, "none")
    ELSE Res([s EXCEPT !.targetTemp = newtemp], << >>, "none")

\* SundanceRS485.change_pump
Sundance_change_pump(s, pump, newstate) ==
    IF \/ pump > MAX_PUMPS
       \/ newstate > D(s.pump_array, pump)
       \/ D(s.pump_status, pump) = newstate
    THEN Res(s, << >>, "none")
    ELSE Res([s EXCEPT !.target_pump_status = ListSet(@, pump, newstate)],
             << >>, "none")

\* ---------------------------------------------------------------- Jacuzzi
\* a faulty has_changed that reports every message as changed
has_changed_always(s, data) ==
    LET mtval == D(data, 4)
        mchk == data[Len(data) - 1]
    IN  [changed |-> TRUE,
         s |-> [s EXCEPT !.prev_chksums =
                    [k \in (DOMAIN @) \cup {mtval} |->
                        IF k = mtval THEN mchk ELSE @[k]]]]

\* JacuzziRS485.has_changed: compares the checksum byte data[-2] with the
\* one kept for the type byte data[4], and keeps the new one
has_changed(s, data) ==
    LET mtval == D(data, 4)
        mchk == data[Len(data) - 1]
    IN  [changed |-> ~(mtval \in DOMAIN s.prev_chksums
                       /\ mchk = s.prev_chksums[mtval]),
         s |-> [s EXCEPT !.prev_chksums =
                    [k \in (DOMAIN @) \cup {mtval} |->
                        IF k = mtval THEN mchk ELSE @[k]]]]

\* a faulty send_message without the check for an assigned channel
send_message_unguarded(s, bytes) ==
    IF ~s.connected THEN Res(s, << >>, "none")
    ELSE Res(s, <<EncodeFrame(bytes)>>, "none")

\* JacuzziRS485.send_message: frame bytes and write them at once
send_message(s, bytes) ==
    IF ~s.connected THEN Res(s, << >>, "none")
    ELSE IF s.channel = None THEN Res(s, << >>, "none")
    ELSE Res(s, <<EncodeFrame(bytes)>>, "none")

\* a faulty conversion that ignores the temperature scale
ScaleTemp_raw(raw, tempscale) == raw

\* the temperature conversion of parse_status_update: raw / 2 under Celsius,
\* raw under Fahrenheit, as twice the value
ScaleTemp(raw, tempscale) == IF tempscale = TSCALE_C THEN raw ELSE 2 * raw

\* JacuzziRS485.parse_status_update; the temperatures are converted with
\* the scale in force before this frame, and the frame's scale bit is
\* stored afterwards.  data[27] is the last byte read unconditionally.
parse_status_update(s, data, t) ==
    IF Len(data) < 13
    THEN Res(IF Len(data) >= 7
             THEN [s EXCEPT !.time_hour = D(data, 5), !.time_minute = D(data, 6)]
             ELSE IF Len(data) = 6 THEN [s EXCEPT !.time_hour = D(data, 5)]
             ELSE s,
             << >>, "IndexError")
    ELSE LET s1 == [s EXCEPT !.time_hour = D(data, 5), !.time_minute = D(data, 6)] IN
    IF Len(data) < 15 THEN Res(s1, << >>, "IndexError")
    ELSE LET curtemp == D(data, 12)
             settemp == D(data, 14)
             s2 == [s1 EXCEPT
                       !.curtemp = IF curtemp # 255
                                   THEN ScaleTemp(curtemp, s.tempscale)
                                   ELSE None,
                       !.settemp = ScaleTemp(settemp, s.tempscale)]
         IN
    IF Len(data) < 16 THEN Res(s2, << >>, "IndexError")
    ELSE LET s3 == [s2 EXCEPT !.pump_status =
                        [i \in 1..6 |->
                            IF D(s.pump_array, i - 1) # 0 /\ i - 1 < 4
                            THEN BitAnd(Shr(D(data, 15), (i - 1) * 2), 3)
                            ELSE @[i]]]
         IN
    IF Len(data) < 19 THEN Res(s3, << >>, "IndexError")
    ELSE LET s4 == [s3 EXCEPT !.tempscale =
                        IF BitAnd(D(data, 18), 1) # 0 THEN TSCALE_C ELSE TSCALE_F]
         IN
    IF Len(data) < 28 THEN Res(s4, << >>, "IndexError")
    ELSE ResU([s4 EXCEPT !.lastupd = t], << >>, "none")

\* JacuzziRS485.set_channel as process_message calls it: both calls raise
\* TypeError before self.channel is assigned (set_channel(self, data) passes
\* three arguments to a method of two; set_channel(chan) subscripts an int)
set_channel(s, data) == Res(s, << >>, "TypeError")

\* JacuzziRS485.find_balboa_mtype for the type bytes the class maps itself;
\* the enumerated constants are kept as names.  Other type bytes go to the
\* parent's table, which knows none of the frames explored here.
find_balboa_mtype(data) ==
    IF Len(data) < 5 THEN "None"
    ELSE LET b == D(data, 4) IN
         IF b = 22 THEN "PLNK_STATUS_UPDATE"
         ELSE IF b = CLIENT_CLEAR_TO_SEND THEN "CLIENT_CLEAR_TO_SEND"
         ELSE IF b = CHANNEL_ASSIGNMENT_REQ THEN "CHANNEL_ASSIGNMENT_REQ"
         ELSE IF b = CHANNEL_ASSIGNMENT_RESPONSE THEN "CHANNEL_ASSIGNMENT_RESPONSE"
         ELSE IF b = CHANNEL_ASSIGNMENT_ACK THEN "CHANNEL_ASSIGNMENT_ACK"
         ELSE IF b = EXISTING_CLIENT_REQ THEN "EXISTING_CLIENT_REQ"
         ELSE IF b = EXISTING_CLIENT_RESPONSE THEN "EXISTING_CLIENT_RESPONSE"
         ELSE IF b = CLEAR_TO_SEND THEN "CLEAR_TO_SEND"
         ELSE IF b = NOTHING_TO_SEND THEN "NOTHING_TO_SEND"
         ELSE IF b = CC_REQ THEN "CC_REQ"
         ELSE "None"

\* process_message, mtype == CLEAR_TO_SEND; JacuzziRS485 never creates
\* self.queue, so the branch that uses it raises
Jacuzzi_CTS(s, channel) ==
    IF ~InList(channel, s.discoveredChannels)
    THEN Res([s EXCEPT !.discoveredChannels = Append(@, channel)], << >>, "none")
    ELSE IF channel = s.channel
    THEN Res(s, << >>, "AttributeError")
    ELSE Res(s, << >>, "none")

\* process_message, mtype == CC_REQ: at the threshold set_channel(chan)
\* raises when a free channel exists; otherwise a non-zero data[5] reaches
\* the log line that names the undefined mid
Jacuzzi_CCREQ(s, data) ==
    LET channel == D(data, 2) IN
    IF ~InList(channel, s.activeChannels)
    THEN Res([s EXCEPT !.activeChannels = Append(@, channel)], << >>, "none")
    ELSE IF s.detectChannelState < DETECT_CHANNEL_STATE_CHANNEL_NOT_FOUND
    THEN LET s1 == [s EXCEPT !.detectChannelState = @ + 1]
             s2 == IF s1.detectChannelState = DETECT_CHANNEL_STATE_CHANNEL_NOT_FOUND
                   THEN [s1 EXCEPT !.discoveredChannels = SortList(@)]
                   ELSE s1
         IN  IF /\ s1.detectChannelState = DETECT_CHANNEL_STATE_CHANNEL_NOT_FOUND
                /\ FirstFree(s2.discoveredChannels, s2.activeChannels) # None
             THEN set_channel(s2, <<FirstFree(s2.discoveredChannels,
                                              s2.activeChannels)>>)
             ELSE IF D(data, 5) # 0 THEN Res(s2, << >>, "NameError")
             ELSE Res(s2, << >>, "none")
    ELSE Res(s, << >>, "none")

\* JacuzziRS485.process_message; t is time.time()
process_message(s, data, t) ==
    LET mtype == find_balboa_mtype(data)
        channel == D(data, 2)
    IN  IF mtype = "None" THEN Res(s, << >>, "none")
        ELSE LET h == has_changed(s, data) IN
        IF ~h.changed THEN Res(h.s, << >>, "none")
        ELSE IF mtype = "PLNK_STATUS_UPDATE" THEN parse_status_update(h.s, data, t)
        ELSE IF mtype = "CLIENT_CLEAR_TO_SEND" THEN Res(h.s, << >>, "none")
        ELSE IF mtype = "CHANNEL_ASSIGNMENT_RESPONSE" THEN set_channel(h.s, data)
        ELSE IF mtype = "CLEAR_TO_SEND" THEN Jacuzzi_CTS(h.s, channel)
        ELSE IF mtype = "CC_REQ" THEN Jacuzzi_CCREQ(h.s, data)
        ELSE Res(h.s, << >>, "none")

\* what JacuzziRS485.process_message returns: its only return statement with
\* a value is in the last else of the CC_REQ branch; every other path falls
\* off the end of the function
process_message_return(s, data) ==
    LET mtype == find_balboa_mtype(data)
        channel == D(data, 2)
    IN  IF mtype = "None" THEN "None"
        ELSE IF ~has_changed(s, data).changed THEN "None"
        ELSE IF /\ mtype = "CC_REQ"
                /\ InList(channel, s.activeChannels)
                /\ s.detectChannelState >= DETECT_CHANNEL_STATE_CHANNEL_NOT_FOUND
        THEN mtype
        ELSE "None"

\* JacuzziRS485.read_one_message, after a successful read
read_one_message(s) ==
    IF s.connection_state # "Connected"
    THEN [s EXCEPT !.connection_state = "Connected"]
    ELSE s

\* n copies of frame
RECURSIVE Repeat(_, _)
Repeat(frame, n) == IF n = 0 THEN << >> ELSE <<frame>> \o Repeat(frame, n - 1)

\* the larger of two numbers
max(a, b) == IF a >= b THEN a ELSE b

\* JacuzziRS485.change_pump, with its sleeps between the presses left out:
\* data[0] = self.channel raises for None
Jacuzzi_change_pump(s, pump, newstate) ==
    IF \/ pump > MAX_PUMPS
       \/ newstate > D(s.pump_array, pump)
       \/ D(s.pump_status, pump) = newstate
    THEN Res(s, << >>, "none")
    ELSE IF s.channel = None THEN Res(s, << >>, "TypeError")
    ELSE LET mtype == IF pump \in {1, 2, 3} THEN 23 ELSE 26
             iter == max((newstate - D(s.pump_status, pump))
                             % (D(s.pump_array, pump) + 1), 1)
             r == send_message(s, <<s.channel, 191, mtype, pump + 3>>)
         IN  Res(s, Repeat(EncodeFrame(<<s.channel, 191, mtype, pump + 3>>),
                           IF r.out = << >> THEN 0 ELSE iter), "none")

\* JacuzziRS485.send_panel_req
send_panel_req(s, ba, bb) ==
    IF s.channel = None THEN Res(s, << >>, "TypeError")
    ELSE send_message(s, <<s.channel, 191, 25, ba, bb>>)

\* JacuzziRS485.change_light
Jacuzzi_change_light(s, newmode) ==
    IF s.channel = None THEN Res(s, << >>, "TypeError")
    ELSE send_message(s, <<s.channel, 191, 33, 31, newmode, 0, 0, 0, 0, 255, 0>>)

\* JacuzziRS485.change_brightness
change_brightness(s, newlevel) ==
    IF s.channel = None THEN Res(s, << >>, "TypeError")
    ELSE send_message(s, <<s.channel, 191, 33, 47, 1, 0, 0, 0, 0, newlevel, 0>>)

\* JacuzziRS485.change_filter1_cycle: the command, then the panel request
change_filter1_cycle(s, starthour, durationhrs, frequency) ==
    IF s.channel = None THEN Res(s, << >>, "TypeError")
    ELSE LET a == send_message(s, <<s.channel, 191, 27, starthour,
                                    durationhrs, frequency>>)
             b == send_panel_req(a.s, 1, 0)
         IN  Res(b.s, a.out \o b.out, b.exc)

\* JacuzziRS485.change_filter2_cycle: the command, then the panel request
change_filter2_cycle(s, mode) ==
    IF s.channel = None THEN Res(s, << >>, "TypeError")
    ELSE LET a == send_message(s, <<s.channel, 191, 28, mode, 0, 0>>)
             b == send_panel_req(a.s, 2, 0)
         IN  Res(b.s, a.out \o b.out, b.exc)

\* JacuzziRS485.set_time; the date bytes are the ones the object holds
\* (currentMonth | 0xF0, dayOfMonth, currentYear - 2000 after __init__)
set_time(s, tm_hour, tm_min) ==
    IF s.channel = None THEN Res(s, << >>, "TypeError")
    ELSE send_message(s, <<s.channel, 191, 24, 241, 1, 0, tm_hour, tm_min>>)

\* JacuzziRS485.set_date; the time bytes are the ones last decoded
set_date(s, tm_mon, tm_mday, tm_year) ==
    IF s.channel = None THEN Res(s, << >>, "TypeError")
    ELSE send_message(s, <<s.channel, 191, 24, 240 + tm_mon, tm_mday,
                           tm_year - 2000, s.time_hour, s.time_minute>>)

\* ---------------------------------------------------------------- session
\* a faulty connect that starts the channel search afresh
Sundance_connect_reset(s, ok) ==
    IF ok THEN [s EXCEPT !.connected = TRUE,
                         !.discoveredChannels = << >>,
                         !.activeChannels = << >>,
                         !.detectChannelState = DETECT_CHANNEL_STATE_START]
    ELSE s

\* SundanceRS485.connect; ok is whether asyncio.open_connection succeeded
Sundance_connect(s, ok) == IF ok THEN [s EXCEPT !.connected = TRUE] ELSE s

\* the parent's connect, as JacuzziRS485 inherits it
connect(s, ok) == IF ok THEN [s EXCEPT !.connected = TRUE] ELSE s

\* the parent's send_mod_ident_req, through JacuzziRS485.send_message
send_mod_ident_req(s) == send_message(s, <<10, 191, 4>>)

\* a faulty supervisor in which a refused connection is not caught and
\* ends the task
check_connection_status_give_up(s, ok, t) ==
    IF ~s.connected
    THEN LET s1 == [connect(s, ok) EXCEPT !.connection_state = "Connecting"]
         IN  IF ~s1.connected THEN Res(s, << >>, "ConnectionRefusedError")
             ELSE IF s1.channel # None THEN send_panel_req(s1, 1, 0)
             ELSE Res(s1, << >>, "none")
    ELSE IF t > s.lastupd + timeout
    THEN LET r == send_mod_ident_req([s EXCEPT !.connection_state = "Disconnected"])
         IN  ResU([r.s EXCEPT !.lastupd = t], r.out, r.exc)
    ELSE Res(s, << >>, "none")

\* JacuzziRS485.check_connection_status, one pass of its loop at time t
check_connection_status(s, ok, t) ==
    IF ~s.connected
    THEN LET s1 == [connect(s, ok) EXCEPT !.connection_state = "Connecting"]
         IN  IF s1.connected /\ s1.channel # None
             THEN send_panel_req(s1, 1, 0)
             ELSE Res(s1, << >>, "none")
    ELSE IF t > s.lastupd + timeout
    THEN LET r == send_mod_ident_req([s EXCEPT !.connection_state = "Disconnected"])
         IN  ResU([r.s EXCEPT !.lastupd = t], r.out, r.exc)
    ELSE Res(s, << >>, "none")

\* the parent's read_one_message on an I/O error: connected is cleared and
\* None is returned
read_failed(s) == [s EXCEPT !.connected = FALSE]

\* a faulty failed-read branch that leaves connection_state as it was
Jacuzzi_listen_none_keep(s) == read_failed(s)

\* JacuzziRS485.listen, data is None
Jacuzzi_listen_none(s) == [read_failed(s) EXCEPT !.connection_state = "Disconnected"]

\* ----------------------------------------------------------------- frames
CCTSFrame == EncodeFrame(<<254, 191, CLIENT_CLEAR_TO_SEND>>)
CARespFrame(c) == EncodeFrame(<<254, 191, CHANNEL_ASSIGNMENT_RESPONSE, c, 241, 115>>)
ECRFrame == EncodeFrame(<<254, 191, EXISTING_CLIENT_REQ>>)
CTSFrame(ch) == EncodeFrame(<<ch, 191, CLEAR_TO_SEND>>)

\* the two frames a controller sends to the client it gives channel 7: the
\* assignment and the transmit grant
CAResp7 == CARespFrame(7)
CAResp9 == CARespFrame(9)
CTS7 == CTSFrame(7)
CCReqFrame(ch, btn) == EncodeFrame(<<ch, 191, CC_REQ, btn>>)

\* two payload bytes per decoded byte v; xormsg folds either pair back to v
RECURSIVE RawPairs(_, _)
RawPairs(fields, alt) ==
    IF fields = << >> THEN << >>
    ELSE (IF alt THEN <<Head(fields), 1>> ELSE <<BitXor(Head(fields), 1), 0>>)
             \o RawPairs(Tail(fields), alt)

\* a Sundance status frame whose folded payload carries the pump bits, the
\* current-temperature key and the set-temperature key
SundanceStatus(cur, set, pumps, alt) ==
    EncodeFrame(<<255, 175, STATUS_UPDATE>>
                    \o RawPairs(<<6, pumps, 0, cur, set,
                                  0, 0, 0, 0, 0, 0, 0, 0, 0, 0>>, alt))

\* a Jacuzzi status frame of 30 bytes: data[12] cur, data[13] fill,
\* data[14] set, data[15] pumps, data[18] flags
JacuzziStatus(cur, fill, set, pumps, flags) ==
    EncodeFrame(<<255, 175, 22>>
                    \o <<0, 0, 0, 0, 0, 0, 0, cur, fill, set, pumps, 0, 0, flags,
                         0, 0, 0, 0, 0, 0, 0, 0, 0>>)

S_35_35 == SundanceStatus(71, 189, 0, FALSE)
S_35_35_alt == SundanceStatus(71, 189, 0, TRUE)
S_35_32 == SundanceStatus(71, 187, 4, FALSE)
S_142_140 == SundanceStatus(142, 140, 0, FALSE)

J_142_140 == JacuzziStatus(142, 0, 140, 0, 1)
J_twin == JacuzziStatus(100, 152, 140, 0, 1)
J_160_160 == JacuzziStatus(160, 0, 160, 4, 0)
J_255_255 == JacuzziStatus(255, 0, 255, 0, 0)

\* a well-framed status frame with three payload bytes, far fewer than
\* either decoder indexes
ShortStatus == EncodeFrame(<<255, 175, STATUS_UPDATE, 9, 30, 0>>)

StatusFrames(d) ==
    IF d = "sundance" THEN {S_35_35, S_35_35_alt, S_35_32, S_142_140}
    ELSE {J_142_140, J_twin, J_160_160, J_255_255}

\* a status frame, by its type byte
IsStatus(f) == D(f, 4) = STATUS_UPDATE

\* the frames of the end-to-end scenario, in order
ScenarioFrames(d) ==
    <<CCTSFrame, CAResp7, IF d = "sundance" THEN S_142_140 ELSE J_142_140>>

\* ------------------------------------------------------------ the machine
Dialects == {"sundance", "jacuzzi"}

NoStep ==
    [op |-> "init", arg |-> << >>, frame |-> << >>, exc |-> "none", upd |-> FALSE]

Init ==
    /\ dialect \in Dialects
    /\ spa = InitSpa(dialect)
    /\ now = StartTime
    /\ written = << >>
    /\ listen_pc = "loop"
    /\ last = NoStep
    /\ statlog = << >>
    /\ offered = FALSE
    /\ scenario = 0
    /\ check_task = [pc |-> "loop", connects |-> 0]
    /\ panel = [set |-> None, quiet |-> CHECKS_BEFORE_RETRY]
    /\ lfm = [pc |-> "idle", want |-> "None", left |-> 0, ret |-> "None"]
    /\ requested = FALSE

\* the bookkeeping of one step that ran a handler with result r
Step(op, arg, frame, r) ==
    /\ Len(r.s.queue) <= MaxQueue
    /\ spa' = r.s
    /\ written' = r.out
    /\ last' = [op |-> op, arg |-> arg, frame |-> frame, exc |-> r.exc,
                upd |-> r.upd]

\* a call made by an adapter task
Command(op, arg, r) ==
    /\ Step(op, arg, << >>, r)
    /\ UNCHANGED <<dialect, now, listen_pc, statlog, offered, scenario, check_task, panel, lfm, requested>>

\* what a dialect compares to tell a status frame from the one before it:
\* JacuzziRS485.has_changed the checksum byte, parse_C4status_update the
\* folded payload
StatusKey(d, f) ==
    IF d = "jacuzzi" THEN <<f[Len(f) - 1]>>
    ELSE xormsg(Slice(f, 5, Len(f) - 2))

\* the status log after frame f was processed with result r: fresh says
\* that f differs from the status frame before it, dup that the dialect's
\* comparison cannot tell the two apart
LogStatus(f, r) ==
    LET e == [frame |-> f, upd |-> r.upd,
              fresh |-> statlog = << >> \/ statlog[Len(statlog)].frame # f,
              dup |-> /\ statlog # << >>
                      /\ StatusKey(dialect, statlog[Len(statlog)].frame)
                             = StatusKey(dialect, f)]
    IN  IF statlog = << >> THEN <<e>> ELSE <<statlog[Len(statlog)], e>>

\* the raw set-temperature byte the controller puts in a status frame for
\* setpoint v
SetKey(v) == CHOOSE k \in DOMAIN set_temp_convert : set_temp_convert[k] = v

\* the setpoint of a controller at setpoint v after it has received the
\* frames out: one step up per temp_up press, one step down per temp_down
\* press, within the setpoints it has
RECURSIVE Pressed(_, _)
Pressed(v, out) ==
    IF out = << >> THEN v
    ELSE LET w == IF Head(out) = button_codes.temp_up THEN v + 1
                  ELSE IF Head(out) = button_codes.temp_down THEN v - 1
                  ELSE v
         IN  Pressed(IF \E k \in DOMAIN set_temp_convert : set_temp_convert[k] = w
                     THEN w ELSE v,
                     Tail(out))

\* listen: one message read and dispatched, with the controller as p before
\* it; an exception ends the task
Receive(f, p) ==
    /\ listen_pc = "loop"
    /\ spa.connected
    /\ LET r == IF dialect = "sundance"
                THEN Sundance_dispatch(spa, f, now)
                ELSE process_message(read_one_message(spa), f, now)
       IN  /\ Step("listen", << >>, f, r)
           /\ listen_pc' = IF r.exc = "none" THEN "loop" ELSE "dead"
           /\ statlog' = IF IsStatus(f) THEN LogStatus(f, r) ELSE statlog
           /\ panel' = IF p.set = None THEN p
                       ELSE [set |-> Pressed(p.set, r.out),
                             quiet |-> IF ~IsStatus(f) THEN p.quiet
                                       ELSE IF Len(r.s.queue) > Len(spa.queue) THEN 0
                                       ELSE IF p.quiet < CHECKS_BEFORE_RETRY
                                       THEN p.quiet + 1
                                       ELSE p.quiet]
           /\ requested' =
                  IF \E i \in 1..Len(r.out) : D(r.out[i], 4) = CHANNEL_ASSIGNMENT_REQ
                  THEN TRUE
                  ELSE IF D(f, 4) = CHANNEL_ASSIGNMENT_RESPONSE THEN FALSE
                  ELSE requested
    /\ offered' = (offered \/ D(f, 4) = CHANNEL_ASSIGNMENT_RESPONSE)
    /\ scenario' = IF scenario \in 0..2 /\ f = ScenarioFrames(dialect)[scenario + 1]
                   THEN scenario + 1
                   ELSE -1
    /\ UNCHANGED <<dialect, now, check_task, lfm>>

\* listen: one message of a bus whose controller is not followed
Listen(f) == Receive(f, panel)

\* the status frames of the controller, by setpoint and pump byte: current
\* temperature 35.5, pump 1 off (0) or on (4)
PanelFrames ==
    [v \in {set_temp_convert[k] : k \in DOMAIN set_temp_convert}, pumps \in {0, 4}
        |-> SundanceStatus(71, SetKey(v), pumps, FALSE)]

\* listen: the message is a status frame of the controller, which reports
\* its setpoint and the state of pump 1 (pumps is the pump byte)
PanelStatus(pumps) ==
    /\ dialect = "sundance"
    /\ LET p == IF panel.set = None THEN [panel EXCEPT !.set = PanelStart]
                ELSE panel
       IN  Receive(PanelFrames[p.set, pumps], p)

\* listen: the read fails
ReadFail ==
    /\ listen_pc = "loop"
    /\ spa.connected
    /\ Step("read_fail", << >>, << >>,
            Res(IF dialect = "sundance" THEN read_failed(spa)
                ELSE Jacuzzi_listen_none(spa), << >>, "none"))
    /\ UNCHANGED <<dialect, now, listen_pc, statlog, offered, scenario, check_task, panel, lfm, requested>>

\* a call of listen_for_mtype(msg_type, msg_limit) by an adapter task
Call_listen_for_mtype(msg_type, msg_limit) ==
    /\ dialect = "jacuzzi"
    /\ lfm.pc \in {"idle", "done"}
    /\ lfm' = [pc |-> "reading", want |-> msg_type, left |-> msg_limit,
               ret |-> "None"]
    /\ Step("listen_for_mtype", <<msg_limit>>, << >>, Res(spa, << >>, "none"))
    /\ UNCHANGED <<dialect, now, listen_pc, statlog, offered, scenario, check_task, panel, requested>>

\* the loop of listen_for_mtype after an iteration that got mtype
lfm_next(l, mtype, exc) ==
    IF exc # "none" THEN [l EXCEPT !.pc = "dead"]
    ELSE IF mtype = l.want \/ l.left = 1
    THEN [pc |-> "done", want |-> l.want, left |-> l.left - 1, ret |-> mtype]
    ELSE [l EXCEPT !.left = @ - 1, !.ret = mtype]

\* one iteration of listen_for_mtype that reads message f
LfmRead(f) ==
    /\ dialect = "jacuzzi"
    /\ lfm.pc = "reading"
    /\ spa.connected
    /\ LET s1 == read_one_message(spa)
           r == process_message(s1, f, now)
       IN  /\ Step("lfm_read", << >>, f, r)
           /\ lfm' = lfm_next(lfm, process_message_return(s1, f), r.exc)
           /\ statlog' = IF IsStatus(f) THEN LogStatus(f, r) ELSE statlog
    /\ offered' = (offered \/ D(f, 4) = CHANNEL_ASSIGNMENT_RESPONSE)
    /\ scenario' = -1
    /\ UNCHANGED <<dialect, now, listen_pc, check_task, panel, requested>>

\* one iteration of listen_for_mtype whose read fails: msg is None, and the
\* loop goes on to its next read without touching connection_state
LfmReadFail ==
    /\ dialect = "jacuzzi"
    /\ lfm.pc = "reading"
    /\ Step("lfm_read_fail", << >>, << >>, Res(read_failed(spa), << >>, "none"))
    /\ lfm' = lfm_next(lfm, "None", "none")
    /\ UNCHANGED <<dialect, now, listen_pc, statlog, offered, scenario, check_task, panel, requested>>

\* SundanceRS485.connect called while the session is down
SundanceConnect(ok) ==
    /\ dialect = "sundance"
    /\ ~spa.connected
    /\ Step("connect", << >>, << >>, Res(Sundance_connect(spa, ok), << >>, "none"))
    /\ UNCHANGED <<dialect, now, listen_pc, statlog, offered, scenario, check_task, panel, lfm, requested>>

\* the seconds check_connection_status sleeps after a pass that called
\* connect, whatever the number of failed attempts before it
retry_delay(attempts) == RetryDelay

\* one pass of JacuzziRS485.check_connection_status that does something:
\* it calls connect and sleeps, or it probes a stale session and goes on
\* without a sleep; an exception would end the task
Supervisor(ok) ==
    /\ dialect = "jacuzzi"
    /\ check_task.pc = "loop"
    /\ ~spa.connected \/ now > spa.lastupd + timeout
    /\ LET r == check_connection_status(spa, ok, now)
       IN  /\ Step("supervisor",
                   IF ~spa.connected
                   THEN <<"connect", retry_delay(check_task.connects)>>
                   ELSE <<"probe", 0>>,
                   << >>, r)
           /\ check_task' =
                  [pc |-> IF r.exc = "none" THEN "loop" ELSE "dead",
                   connects |-> IF spa.connected THEN check_task.connects
                                ELSE IF r.s.connected THEN 0
                                ELSE (check_task.connects + 1) % ConnectCountMod]
    /\ UNCHANGED <<dialect, now, listen_pc, statlog, offered, scenario, panel, lfm, requested>>

\* the wall clock advances
Tick ==
    /\ now < StartTime + MaxTicks * TickSeconds
    /\ now' = now + TickSeconds
    /\ Step("tick", << >>, << >>, Res(spa, << >>, "none"))
    /\ UNCHANGED <<dialect, listen_pc, statlog, offered, scenario, check_task, panel, lfm, requested>>

Call_send_CCmessage(val) ==
    /\ dialect = "sundance"
    /\ Command("send_CCmessage", << >>, send_CCmessage(spa, val))

Call_send_temp_change(newtemp) ==
    /\ dialect = "sundance"
    /\ Command("send_temp_change", <<newtemp>>, send_temp_change(spa, newtemp))

Call_Sundance_change_pump(pump, newstate) ==
    /\ dialect = "sundance"
    /\ Command("change_pump", <<pump, newstate>>,
               Sundance_change_pump(spa, pump, newstate))

Call_send_message(bytes) ==
    /\ dialect = "jacuzzi"
    /\ Command("send_message", << >>, send_message(spa, bytes))

Call_Jacuzzi_change_pump(pump, newstate) ==
    /\ dialect = "jacuzzi"
    /\ Command("change_pump", <<pump, newstate>>,
               Jacuzzi_change_pump(spa, pump, newstate))

Call_send_panel_req ==
    /\ dialect = "jacuzzi"
    /\ Command("send_panel_req", << >>, send_panel_req(spa, 1, 0))

Call_change_light ==
    /\ dialect = "jacuzzi"
    /\ Command("change_light", << >>, Jacuzzi_change_light(spa, 2))

Call_change_brightness ==
    /\ dialect = "jacuzzi"
    /\ Command("change_brightness", << >>, change_brightness(spa, 128))

Call_change_filter1_cycle ==
    /\ dialect = "jacuzzi"
    /\ Command("change_filter1_cycle", << >>, change_filter1_cycle(spa, 8, 2, 1))

Call_change_filter2_cycle ==
    /\ dialect = "jacuzzi"
    /\ Command("change_filter2_cycle", << >>, change_filter2_cycle(spa, 1))

Call_set_time ==
    /\ dialect = "jacuzzi"
    /\ Command("set_time", << >>, set_time(spa, 12, 30))

Call_set_date ==
    /\ dialect = "jacuzzi"
    /\ Command("set_date", << >>, set_date(spa, 11, 3, 2026))

\* the values adapters pass to send_CCmessage: a button code, a bare int
CCValues == {CCBytes(button_codes.temp_up), CCInt(241)}

\* target temperatures asked for: 32.0, 35.0 and the out-of-range 45.0
TempRequests == {64, 70, 90}

\* the calls that send a command frame
SendCommands ==
    \/ \E val \in CCValues : Call_send_CCmessage(val)
    \/ Call_send_message(<<10, 191, 4>>)
    \/ \E n \in 0..3 : Call_Jacuzzi_change_pump(1, n)
    \/ Call_send_panel_req
    \/ Call_change_light
    \/ Call_change_brightness
    \/ Call_change_filter1_cycle
    \/ Call_change_filter2_cycle
    \/ Call_set_time
    \/ Call_set_date

\* the Sundance calls that only record a target for the status decoder
TargetCommands ==
    \/ \E t \in TempRequests : Call_send_temp_change(t)
    \/ \E n \in 0..2 : Call_Sundance_change_pump(1, n)

\* the bus during channel arbitration, with one status frame per dialect
ArbFrames(d) ==
    {CCTSFrame, CARespFrame(7), CTSFrame(7), CTSFrame(16), CCReqFrame(16, 0)}
        \cup (IF d = "sundance" THEN {ECRFrame, S_35_32}
                                ELSE {CCReqFrame(16, 4), J_160_160})

\* the bus once status frames flow
StatusEnv(d) == StatusFrames(d) \cup {CCTSFrame, CARespFrame(7)}

\* arbitration, the transmit queue and the command calls
NextArb ==
    \/ \E f \in ArbFrames(dialect) : Listen(f)
    \/ ReadFail
    \/ \E ok \in BOOLEAN : SundanceConnect(ok)
    \/ \E ok \in BOOLEAN : Supervisor(ok)
    \/ SendCommands

SpecArb == Init /\ [][NextArb]_vars

\* status decoding, change detection, the supervisor's clock and the
\* command calls
NextStatus ==
    \/ \E f \in StatusEnv(dialect) : Listen(f)
    \/ ReadFail
    \/ \E ok \in BOOLEAN : SundanceConnect(ok)
    \/ \E ok \in BOOLEAN : Supervisor(ok)
    \/ Tick
    \/ SendCommands

SpecStatus == Init /\ [][NextStatus]_vars

\* the bus of a quiet session: a probe, a status frame or two and a status
\* frame cut short
LiveFrames(d) ==
    {CCTSFrame, ShortStatus}
        \cup (IF d = "sundance" THEN {S_35_35} ELSE {J_142_140, J_160_160})

\* the session and its supervisor over time
NextLive ==
    \/ \E f \in LiveFrames(dialect) : Listen(f)
    \/ ReadFail
    \/ \E ok \in BOOLEAN : SundanceConnect(ok)
    \/ \E ok \in BOOLEAN : Supervisor(ok)
    \/ Tick

\* check_connection_status is a task of its own that loops with a sleep, so
\* a pass that has something to do is taken in the end, and the clock
\* advances; frames and read errors come from outside and may never come
SpecLive ==
    /\ Init
    /\ [][NextLive]_vars
    /\ WF_vars(\E ok \in BOOLEAN : Supervisor(ok))
    /\ WF_vars(Tick)

\* a broadcast of the panel on 17 whose checksum byte equals that of
\* CCReqFrame(16, 0)
CCReq_twin == CCReqFrame(17, 107)

\* a frame of the panel on 16 whose type byte no table knows
UnknownFrame == EncodeFrame(<<16, 191, 99>>)

\* the bus while a free channel is searched: grants to channels 7 and 16,
\* button broadcasts of the panels on 16 and 17
ProbeFrames ==
    {CCTSFrame, CTSFrame(16), CTSFrame(7),
     CCReqFrame(16, 0), CCReqFrame(17, 0), CCReqFrame(16, 4), CCReq_twin,
     UnknownFrame}

\* the search for a free channel
NextProbe ==
    \/ \E f \in ProbeFrames : Listen(f)
    \/ ReadFail
    \/ \E ok \in BOOLEAN : SundanceConnect(ok)
    \/ \E ok \in BOOLEAN : Supervisor(ok)

SpecProbe == Init /\ [][NextProbe]_vars

\* bytes the frame codec is tried on: zero, a channel, the frame delimiter
\* and the largest byte
CodecBytes == {0, 16, M_STARTEND, 255}

\* channel, flag and type followed by up to MaxPayload payload bytes
CodecInputs ==
    UNION {[1..n -> CodecBytes] : n \in 3..(3 + MaxPayload)}

\* send_message's framing of bytes, tried on the session as constructed:
\* the frame depends on bytes alone
Encode(bytes) ==
    /\ last.op = "init"
    /\ Command("encode", bytes, Res(spa, <<EncodeFrame(bytes)>>, "none"))

\* the frame codec, and the frames the receive loop builds and sends
NextCodec ==
    \/ \E bytes \in CodecInputs : Encode(bytes)
    \/ NextArb

SpecCodec == Init /\ [][NextCodec]_vars

\* target temperatures asked for while the controller is followed: one step
\* above its first setpoint, and one above tmax
ReconTemps == {PanelStart + 1, tmax + 10}

\* the Sundance reconciliation of targets against the controller's status
\* frames: the assignment, the grants for channel 7, the status frames and
\* the calls that record a target
NextRecon ==
    \/ \E f \in {CARespFrame(7), CTSFrame(7)} : Listen(f)
    \/ \E pumps \in {0, 4} : PanelStatus(pumps)
    \/ \E ok \in BOOLEAN : SundanceConnect(ok)
    \/ \E t \in ReconTemps : Call_send_temp_change(t)
    \/ \E n \in 1..2 : Call_Sundance_change_pump(1, n)

SpecRecon == Init /\ [][NextRecon]_vars

\* the messages listen_for_mtype reads: status frames, broadcasts of two
\* panels, the probe of the controller
MtypeFrames == {J_142_140, J_160_160, CCReqFrame(16, 0), CCReqFrame(18, 0), CCTSFrame}

\* listen_for_mtype next to the supervisor and the receive loop
NextMtype ==
    \/ \E t \in {"PLNK_STATUS_UPDATE", "CC_REQ"}, n \in 1..MaxReads : Call_listen_for_mtype(t, n)
    \/ \E f \in MtypeFrames : LfmRead(f)
    \/ LfmReadFail
    \/ \E ok \in BOOLEAN : Supervisor(ok)
    \/ \E f \in {J_142_140, CCTSFrame} : Listen(f)
    \/ ReadFail

SpecMtype == Init /\ [][NextMtype]_vars

\* a bus on which the controller answers requests of other clients too:
\* assignments of 7 and of 9, grants for 7 and 9, broadcasts of the panel
\* on 16
NextAssign ==
    \/ \E f \in {CCTSFrame, CAResp7, CAResp9, CTS7, CTSFrame(9), CCReqFrame(16, 0)} :
           Listen(f)
    \/ \E ok \in BOOLEAN : SundanceConnect(ok)
    \/ Call_send_CCmessage(CCBytes(button_codes.temp_up))

SpecAssign == Init /\ [][NextAssign]_vars

Next ==
    \/ NextArb \/ NextStatus \/ NextLive \/ NextCodec \/ NextProbe \/ NextRecon
    \/ NextMtype \/ NextAssign
    \/ TargetCommands

Spec == Init /\ [][Next]_vars


\* ----------------------------------------------------------------- claims
\* C1: in both dialects, whenever the receive loop processes a
\* ChannelAssignmentResponse offering channel c, the assigned channel becomes
\* c and exactly one ChannelAssignmentAck carrying c is written.
C1_AssignAndAck ==
    (last.op = "listen" /\ D(last.frame, 4) = CHANNEL_ASSIGNMENT_RESPONSE)
        => /\ spa.channel = D(last.frame, 5)
           /\ written = <<EncodeFrame(<<D(last.frame, 5), 191,
                                        CHANNEL_ASSIGNMENT_ACK>>)>>

\* C1, where it fails: the Jacuzzi receive loop has ended on the response
\* with TypeError, no channel assigned and nothing written
C1_JacuzziRaises ==
    /\ dialect = "jacuzzi"
    /\ last.op = "listen"
    /\ last.frame = CARespFrame(7)
    /\ last.exc = "TypeError"
    /\ listen_pc = "dead"
    /\ spa.channel = None
    /\ written = << >>

\* C2: a frame leaves the transmit queue only in the step that processes a
\* ClearToSend whose channel byte equals the assigned channel; that step
\* removes the head of the queue and writes exactly that one frame; a
\* ClearToSend step that removes nothing writes nothing.
C2_DequeueOnlyOnGrant ==
    [][/\ Len(spa'.queue) < Len(spa.queue)
           => /\ last'.op = "listen"
              /\ D(last'.frame, 4) = CLEAR_TO_SEND
              /\ D(last'.frame, 2) = spa.channel
              /\ spa'.queue = Tail(spa.queue)
              /\ written' = <<Head(spa.queue)>>
       /\ (/\ Len(spa'.queue) >= Len(spa.queue)
           /\ last'.op = "listen"
           /\ D(last'.frame, 4) = CLEAR_TO_SEND)
           => written' = << >>]_vars

\* C2, its case: the grant for channel 7 has just sent one of two queued
\* frames and the other is still queued
C2_OneSentOneWaiting ==
    /\ last.op = "listen"
    /\ last.frame = CTSFrame(7)
    /\ spa.channel = 7
    /\ written = <<button_codes.temp_up>>
    /\ spa.queue = <<button_codes.temp_up>>

C4_SendIsNoOpWhenDown ==
    [][(/\ last'.op \in {"send_CCmessage", "send_message"}
        /\ ~spa.connected \/ spa.channel = None)
           => /\ last'.exc = "none"
              /\ written' = << >>
              /\ spa'.queue = spa.queue]_vars

\* C4, its case: send_message has returned on a connected Jacuzzi session
\* that has no channel
C4_SendWithoutChannel ==
    /\ dialect = "jacuzzi"
    /\ last.op = "send_message"
    /\ last.exc = "none"
    /\ spa.connected
    /\ spa.channel = None
    /\ written = << >>

C10_ReadFailDisconnects ==
    (dialect = "jacuzzi" /\ last.op = "read_fail")
        => spa.connection_state = "Disconnected"

\* C10, its case: a read has failed on a session that had read messages
C10_FailedAfterReads ==
    /\ dialect = "jacuzzi"
    /\ last.op = "read_fail"
    /\ DOMAIN spa.prev_chksums # {}
    /\ ~spa.connected
    /\ spa.connection_state = "Disconnected"


\* C5: end to end, from a fresh connected session: after ClientClearToSend
\* and then ChannelAssignmentResponse with channel 7 the assigned channel is
\* 7, and after the following status frame with set byte 140 and current
\* byte 142 under Celsius the current and set temperatures are 71.0 and 70.0.
C5_EndToEnd ==
    /\ scenario >= 2 => spa.channel = 7
    /\ scenario = 3 => spa.curtemp = 142 /\ spa.settemp = 140

\* C5, where it fails: the Jacuzzi session has processed ClientClearToSend
\* and the response for channel 7, and has no channel and no receive loop
C5_JacuzziStops ==
    /\ dialect = "jacuzzi"
    /\ scenario = 2
    /\ spa.channel = None
    /\ listen_pc = "dead"

\* C7 as stated: of two copies of the same status frame processed in a row,
\* the first being a frame other than the status frame before it, the first
\* updates lastupd and the second does not.
C7_SameFrameTwice ==
    (/\ Len(statlog) = 2
     /\ statlog[1].frame = statlog[2].frame
     /\ statlog[1].fresh)
        => statlog[1].upd /\ ~statlog[2].upd

\* C7, amended: of two copies of the same status frame processed in a row
\* the second never updates lastupd, and the first updates it exactly when
\* the dialect's comparison tells it from the status frame before it (or
\* there is none): the checksum byte in the Jacuzzi dialect, the folded
\* payload in the Sundance dialect.
C7_FirstCopyIfKeyDiffers ==
    (Len(statlog) = 2 /\ statlog[1].frame = statlog[2].frame)
        => /\ ~statlog[2].upd
           /\ statlog[1].upd <=> ~statlog[1].dup

\* C7, its case: the Jacuzzi session has processed J_142_140 and then two
\* copies of J_twin, a frame with other temperature bytes and the same
\* checksum byte; neither copy updated lastupd
C7_TwinDropped ==
    /\ dialect = "jacuzzi"
    /\ Len(statlog) = 2
    /\ statlog[1] = [frame |-> J_twin, upd |-> FALSE, fresh |-> TRUE, dup |-> TRUE]
    /\ statlog[2] = [frame |-> J_twin, upd |-> FALSE, fresh |-> FALSE, dup |-> TRUE]
    /\ spa.curtemp = 142

C11_StaleForcesReconnect ==
    /\ [][(last'.op = "supervisor" /\ last'.arg[1] = "probe")
              => /\ spa'.connection_state = "Disconnected"
                 /\ written' = <<EncodeFrame(<<10, 191, 4>>)>>]_vars
    /\ (dialect = "jacuzzi" /\ last.op = "supervisor" /\ last.arg[1] = "probe")
           ~> (last.op = "supervisor" /\ last.arg[1] = "connect")

\* C11, where it fails: after a Tick the supervisor has probed the connected
\* session again; nothing was written and the transport still counts as
\* connected, so no pass calls connect
C11_ProbedStillConnected ==
    /\ dialect = "jacuzzi"
    /\ last.op = "supervisor"
    /\ last.arg[1] = "probe"
    /\ now > StartTime
    /\ spa.connected
    /\ spa.connection_state = "Disconnected"
    /\ written = << >>

\* C12: a pass of the supervisor that calls connect sleeps RetryDelay
\* seconds whatever the number of failed attempts before it, and while the
\* transport is not connected another call of connect always follows.
C12_RetriesForever ==
    /\ []((last.op = "supervisor" /\ last.arg[1] = "connect")
              => (last.arg[2] = RetryDelay /\ check_task.pc = "loop"))
    /\ \A n \in 0..(ConnectCountMod - 1) :
           (dialect = "jacuzzi" /\ ~spa.connected /\ check_task.connects = n)
               ~> (spa.connected \/ check_task.connects # n)

\* C12, its case: two calls of connect in a row have failed and the task
\* is still looping
C12_TwoFailedAttempts ==
    /\ dialect = "jacuzzi"
    /\ ~spa.connected
    /\ last.op = "supervisor"
    /\ last.arg = <<"connect", RetryDelay>>
    /\ check_task = [pc |-> "loop", connects |-> 2]

\* C13 as stated: a connect that succeeds on a session that was down leaves
\* the discovered and the active channels empty and the probe counter at
\* its start value.
C13_ReconnectResets ==
    [][(~spa.connected /\ spa'.connected)
           => /\ spa'.discoveredChannels = << >>
              /\ spa'.activeChannels = << >>
              /\ spa'.detectChannelState = DETECT_CHANNEL_STATE_START]_vars

\* C13, amended: a connect that succeeds on a session that was down leaves
\* the discovered channels, the active channels, the probe counter and the
\* assigned channel as they were before the connection was lost.
C13_ReconnectKeeps ==
    [][(~spa.connected /\ spa'.connected)
           => /\ spa'.discoveredChannels = spa.discoveredChannels
              /\ spa'.activeChannels = spa.activeChannels
              /\ spa'.detectChannelState = spa.detectChannelState
              /\ spa'.channel = spa.channel]_vars

\* C13, its case: the session is connected again after a failed read and
\* still holds a discovered channel, an active channel and a counter that
\* has started
C13_ReconnectedWithChannels ==
    /\ last.op \in {"connect", "supervisor"}
    /\ spa.connected
    /\ spa.discoveredChannels # << >>
    /\ spa.activeChannels # << >>
    /\ spa.detectChannelState > DETECT_CHANNEL_STATE_START

\* C14 as stated: in every frame built for transmission the LEN byte is
\* the number of bytes from the channel byte through the checksum byte.
C14_LenFromChannel ==
    /\ \A i \in 1..Len(written) : D(written[i], 1) = Len(written[i]) - 3
    /\ \A i \in 1..Len(spa.queue) : D(spa.queue[i], 1) = Len(spa.queue[i]) - 3
    /\ \A k \in DOMAIN button_codes : D(button_codes[k], 1) = Len(button_codes[k]) - 3

\* C14, amended: in every frame built for transmission (by send_message,
\* the pre-encoded button presses, the arbitration frames of the receive
\* loop) the LEN byte is the number of bytes from the LEN byte itself through
\* the checksum byte, that is the channel-to-checksum count plus one.
C14_LenFromLen ==
    /\ \A i \in 1..Len(written) : D(written[i], 1) = Len(written[i]) - 2
    /\ \A i \in 1..Len(spa.queue) : D(spa.queue[i], 1) = Len(spa.queue[i]) - 2
    /\ \A k \in DOMAIN button_codes : D(button_codes[k], 1) = Len(button_codes[k]) - 2

\* C14, its case: send_message's framing of channel, flag, type and two
\* payload bytes has produced a frame of nine bytes with LEN 7
C14_FramedFive ==
    /\ last.op = "encode"
    /\ Len(last.arg) = 5
    /\ Len(written) = 1
    /\ Len(written[1]) = 9
    /\ D(written[1], 1) = 7

\* C15: for every byte sequence b given to send_message's framing, the
\* frame is 0x7E, LEN, the bytes of b in order, one checksum byte, 0x7E, and
\* decoding the frame returns exactly b.
C15_RoundTrip ==
    last.op = "encode"
        => LET b == last.arg
               f == written[1]
           IN  /\ Len(written) = 1
               /\ Len(f) = Len(b) + 4
               /\ f[1] = 126 /\ f[Len(f)] = 126
               /\ SubSeq(f, 3, Len(f) - 2) = b
               /\ decode(f) = b

\* C15, its case: a payload that holds the delimiter byte itself has been
\* framed
C15_DelimiterInPayload ==
    /\ last.op = "encode"
    /\ last.arg = <<16, 255, M_STARTEND, M_STARTEND, 0>>
    /\ decode(written[1]) = last.arg

\* C16: the step that processes an ExistingClientRequest writes exactly one
\* ExistingClientResponse with the static payload 04 08 00 and leaves the
\* assigned channel, both channel lists, the probe counter and the transmit
\* queue as they were.
C16_ExistingClientReply ==
    [][(last'.op = "listen" /\ D(last'.frame, 4) = EXISTING_CLIENT_REQ)
           => /\ Len(written') = 1
              /\ D(written'[1], 4) = EXISTING_CLIENT_RESPONSE
              /\ Slice(written'[1], 5, 8) = <<4, 8, 0>>
              /\ spa'.channel = spa.channel
              /\ spa'.discoveredChannels = spa.discoveredChannels
              /\ spa'.activeChannels = spa.activeChannels
              /\ spa'.detectChannelState = spa.detectChannelState
              /\ spa'.queue = spa.queue]_vars

\* C16, where it fails: the Sundance session holding channel 7 has
\* processed an ExistingClientRequest; the reply was never written and the
\* receive loop has ended with IndexError
C16_ReplyRaises ==
    /\ dialect = "sundance"
    /\ last.op = "listen"
    /\ last.frame = ECRFrame
    /\ spa.channel = 7
    /\ last.exc = "IndexError"
    /\ written = << >>
    /\ listen_pc = "dead"

\* C17: a ChannelAssignmentRequest is written in the step that processes a
\* ClientClearToSend while no channel is assigned and the probe counter is at
\* the threshold, exactly one and with the channel left unassigned, and in
\* no other step.
C17_RequestOnProbe ==
    [][LET trigger == /\ last'.op = "listen"
                      /\ D(last'.frame, 4) = CLIENT_CLEAR_TO_SEND
                      /\ spa.channel = None
                      /\ spa.detectChannelState
                             = DETECT_CHANNEL_STATE_CHANNEL_NOT_FOUND
       IN  /\ trigger => /\ Len(written') = 1
                          /\ D(written'[1], 4) = CHANNEL_ASSIGNMENT_REQ
                          /\ spa'.channel = None
           /\ ~trigger => \A i \in 1..Len(written') :
                              D(written'[i], 4) # CHANNEL_ASSIGNMENT_REQ]_vars

\* C17, where it fails: the Jacuzzi session without a channel and with the
\* counter at the threshold has processed a ClientClearToSend and has
\* written nothing
C17_JacuzziOnlyLogs ==
    /\ dialect = "jacuzzi"
    /\ last.op = "listen"
    /\ last.frame = CCTSFrame
    /\ last.exc = "none"
    /\ spa.channel = None
    /\ spa.detectChannelState = DETECT_CHANNEL_STATE_CHANNEL_NOT_FOUND
    /\ written = << >>

\* C18 as stated: every ClearToSend for the assigned channel that is processed
\* while the transmit queue is not empty removes exactly the oldest queued
\* frame and writes it, the first ClearToSend seen for that channel included.
C18_EveryGrantSends ==
    [][(/\ last'.op = "listen"
        /\ D(last'.frame, 4) = CLEAR_TO_SEND
        /\ D(last'.frame, 2) = spa.channel
        /\ spa.queue # << >>)
           => /\ spa'.queue = Tail(spa.queue)
              /\ written' = <<Head(spa.queue)>>]_vars

\* C18, amended: a ClearToSend for the assigned channel that is processed
\* while the transmit queue is not empty removes exactly the oldest queued
\* frame and writes it when the channel is already in the discovered list,
\* whether or not the frame repeats the one before it; the first ClearToSend
\* seen for the channel only adds it to the discovered list, writes nothing
\* and leaves the queue as it was.
C18_KnownGrantSends ==
    [][(/\ last'.op = "listen"
        /\ D(last'.frame, 4) = CLEAR_TO_SEND
        /\ D(last'.frame, 2) = spa.channel
        /\ spa.queue # << >>)
           => IF InList(spa.channel, spa.discoveredChannels)
              THEN /\ spa'.queue = Tail(spa.queue)
                   /\ written' = <<Head(spa.queue)>>
                   /\ spa'.discoveredChannels = spa.discoveredChannels
              ELSE /\ spa'.queue = spa.queue
                   /\ written' = << >>
                   /\ spa'.discoveredChannels
                          = Append(spa.discoveredChannels, spa.channel)]_vars

\* C18, its case: channel 7 came from a ChannelAssignmentResponse, a frame
\* is queued, and the first ClearToSend for 7 has been processed: 7 is now
\* discovered, nothing was written and the frame is still queued
C18_FirstGrantOnlyRecords ==
    /\ dialect = "sundance"
    /\ last.op = "listen"
    /\ last.frame = CTSFrame(7)
    /\ spa.channel = 7
    /\ InList(7, spa.discoveredChannels)
    /\ spa.queue # << >>
    /\ written = << >>

\* C19 as stated: every CC_REQ frame processed while the probe counter is
\* below the threshold increments the counter by exactly one.
C19_EveryBroadcastCounts ==
    [][(/\ last'.op = "listen"
        /\ D(last'.frame, 4) = CC_REQ
        /\ spa.detectChannelState < DETECT_CHANNEL_STATE_CHANNEL_NOT_FOUND)
           => spa'.detectChannelState = spa.detectChannelState + 1]_vars

\* C19, amended: a CC_REQ frame processed while the probe counter is below
\* the threshold increments the counter by exactly one when its sender is
\* already in the active list (and, in the Jacuzzi dialect, the frame's
\* checksum differs from that of the CC_REQ frame before it); a frame of a
\* sender not yet in the active list only adds the sender to the list, and
\* the counter stays as it was.
C19_KnownSenderCounts ==
    [][(last'.op = "listen" /\ D(last'.frame, 4) = CC_REQ)
           => LET f == last'.frame
                  sender == D(f, 2)
                  known == InList(sender, spa.activeChannels)
                  passed == \/ dialect = "sundance"
                            \/ CC_REQ \notin DOMAIN spa.prev_chksums
                            \/ spa.prev_chksums[CC_REQ] # f[Len(f) - 1]
                  below == spa.detectChannelState
                               < DETECT_CHANNEL_STATE_CHANNEL_NOT_FOUND
              IN  /\ spa'.detectChannelState =
                         IF passed /\ known /\ below
                         THEN spa.detectChannelState + 1
                         ELSE spa.detectChannelState
                  /\ spa'.activeChannels =
                         IF passed /\ ~known
                         THEN Append(spa.activeChannels, sender)
                         ELSE spa.activeChannels]_vars

\* C19, its case: the first broadcasts of the panels on 16 and 17 have been
\* processed and the counter has not moved
C19_TwoSendersNoCount ==
    /\ last.op = "listen"
    /\ last.frame = CCReqFrame(17, 0)
    /\ spa.activeChannels = <<16, 17>>
    /\ spa.detectChannelState = DETECT_CHANNEL_STATE_START

\* C20: the step in which the probe counter reaches the threshold while a
\* discovered channel is not in the active list assigns the lowest such
\* channel and writes no frame.
C20_LowestFreeChannel ==
    [][(/\ last'.op = "listen"
        /\ spa.detectChannelState < DETECT_CHANNEL_STATE_CHANNEL_NOT_FOUND
        /\ spa'.detectChannelState = DETECT_CHANNEL_STATE_CHANNEL_NOT_FOUND
        /\ \E i \in 1..Len(spa'.discoveredChannels) :
               ~InList(spa'.discoveredChannels[i], spa'.activeChannels))
           => LET free == {c \in 0..255 :
                              /\ InList(c, spa'.discoveredChannels)
                              /\ ~InList(c, spa'.activeChannels)}
              IN  /\ spa'.channel \in free
                  /\ \A c \in free : spa'.channel <= c
                  /\ written' = << >>]_vars

\* C20, where it fails: the Jacuzzi counter has reached the threshold with
\* channel 7 discovered and free; the assignment raised, no channel is
\* held and the receive loop has ended
C20_JacuzziAssignRaises ==
    /\ dialect = "jacuzzi"
    /\ last.op = "listen"
    /\ last.exc = "TypeError"
    /\ spa.detectChannelState = DETECT_CHANNEL_STATE_CHANNEL_NOT_FOUND
    /\ InList(7, spa.discoveredChannels)
    /\ ~InList(7, spa.activeChannels)
    /\ spa.channel = None
    /\ listen_pc = "dead"

\* C21: once the probe counter has reached the threshold with no discovered
\* channel outside the active list, the channel stays unassigned in every
\* step that does not process a ChannelAssignmentResponse: neither the step
\* that reaches the threshold nor any step after it assigns a channel,
\* whatever ClearToSend and CC_REQ frames are processed.
C21_NoSecondSearch ==
    [][(/\ spa.channel = None
        /\ ~(last'.op = "listen"
               /\ D(last'.frame, 4) = CHANNEL_ASSIGNMENT_RESPONSE)
        /\ \/ spa.detectChannelState = DETECT_CHANNEL_STATE_CHANNEL_NOT_FOUND
           \/ /\ spa'.detectChannelState = DETECT_CHANNEL_STATE_CHANNEL_NOT_FOUND
              /\ FirstFree(spa'.discoveredChannels, spa'.activeChannels) = None)
           => spa'.channel = None]_vars

\* C21, its case: the Sundance counter reached the threshold with nothing
\* free, channel 7 was discovered afterwards and is not active, a further
\* CC_REQ of the panel on 16 has been processed, and no channel is held
C21_FreeChannelIgnored ==
    /\ dialect = "sundance"
    /\ ~offered
    /\ last.op = "listen"
    /\ last.frame = CCReqFrame(16, 0)
    /\ spa.detectChannelState = DETECT_CHANNEL_STATE_CHANNEL_NOT_FOUND
    /\ InList(7, spa.discoveredChannels)
    /\ ~InList(7, spa.activeChannels)
    /\ spa.channel = None
    /\ listen_pc = "loop"

\* C22: in every reachable state the probe counter lies between
\* DETECT_CHANNEL_STATE_START (0) and
\* DETECT_CHANNEL_STATE_CHANNEL_NOT_FOUND (5) inclusive, and no step that
\* processes a received frame decreases it.
C22_CounterInRange ==
    /\ [](spa.detectChannelState \in
              DETECT_CHANNEL_STATE_START..DETECT_CHANNEL_STATE_CHANNEL_NOT_FOUND)
    /\ [][last'.op = "listen"
              => spa'.detectChannelState >= spa.detectChannelState]_vars

\* C22, its case: a CC_REQ has been processed with the counter at the
\* threshold
C22_AtThreshold ==
    /\ last.op = "listen"
    /\ D(last.frame, 4) = CC_REQ
    /\ spa.detectChannelState = DETECT_CHANNEL_STATE_CHANNEL_NOT_FOUND

\* C23 as stated: the discovered and active lists never lose a channel and
\* never hold one twice; a step that processes a ClearToSend leaves the
\* discovered list holding the channels it held and the frame's channel, a
\* step that processes a CC_REQ leaves the active list holding the channels
\* it held and the frame's channel, and no other step changes the channels
\* either list holds.
C23_ListsAreFramesSeen ==
    /\ [](\A i, j \in 1..Len(spa.discoveredChannels) :
              spa.discoveredChannels[i] = spa.discoveredChannels[j] => i = j)
    /\ [](\A i, j \in 1..Len(spa.activeChannels) :
              spa.activeChannels[i] = spa.activeChannels[j] => i = j)
    /\ [][LET got(t) == last'.op = "listen" /\ D(last'.frame, 4) = t
              ch == D(last'.frame, 2)
          IN  \A c \in 0..255 :
                  /\ InList(c, spa'.discoveredChannels)
                         <=> \/ InList(c, spa.discoveredChannels)
                             \/ got(CLEAR_TO_SEND) /\ c = ch
                  /\ InList(c, spa'.activeChannels)
                         <=> \/ InList(c, spa.activeChannels)
                             \/ got(CC_REQ) /\ c = ch]_vars

\* C23, amended: the discovered and active lists never lose a channel and
\* never hold one twice.  In the Sundance dialect the discovered list holds
\* exactly the channels of the ClearToSend frames processed and the active
\* list exactly the channels of the CC_REQ frames processed.  In the Jacuzzi
\* dialect a frame counts only when its checksum byte differs from that of
\* the frame of the same type processed before it: a ClearToSend or CC_REQ
\* with the same checksum byte as its predecessor is dropped and its channel
\* is not recorded.
C23_ListsAreFramesKept ==
    /\ [](\A i, j \in 1..Len(spa.discoveredChannels) :
              spa.discoveredChannels[i] = spa.discoveredChannels[j] => i = j)
    /\ [](\A i, j \in 1..Len(spa.activeChannels) :
              spa.activeChannels[i] = spa.activeChannels[j] => i = j)
    /\ [][LET f == last'.frame
              kept(t) == /\ last'.op = "listen"
                         /\ D(f, 4) = t
                         /\ \/ dialect = "sundance"
                            \/ t \notin DOMAIN spa.prev_chksums
                            \/ spa.prev_chksums[t] # f[Len(f) - 1]
              ch == D(f, 2)
          IN  \A c \in 0..255 :
                  /\ InList(c, spa'.discoveredChannels)
                         <=> \/ InList(c, spa.discoveredChannels)
                             \/ kept(CLEAR_TO_SEND) /\ c = ch
                  /\ InList(c, spa'.activeChannels)
                         <=> \/ InList(c, spa.activeChannels)
                             \/ kept(CC_REQ) /\ c = ch]_vars

\* C23, its case: the Jacuzzi session has processed the broadcast of the
\* panel on 16 and then the one of the panel on 17 that has the same
\* checksum byte; 17 is not in the active list
C23_TwinSenderMissed ==
    /\ dialect = "jacuzzi"
    /\ last.op = "listen"
    /\ last.frame = CCReq_twin
    /\ last.exc = "none"
    /\ spa.activeChannels = <<16>>
    /\ spa.prev_chksums[CC_REQ] = CCReqFrame(16, 0)[7]

\* C24: every message the receive loop reads is handled without an
\* exception, and the loop goes on to read the next one.
C24_LoopNeverStops ==
    /\ listen_pc = "loop"
    /\ last.op = "listen" => last.exc = "none"

\* C24, where it fails: the Sundance receive loop has read a well-framed
\* status frame whose set-temperature byte is no key of set_temp_convert;
\* the lookup raised KeyError and the loop has ended
C24_StatusEndsLoop ==
    /\ dialect = "sundance"
    /\ last.op = "listen"
    /\ last.frame = S_142_140
    /\ decode(last.frame) = Slice(last.frame, 2, Len(last.frame) - 2)
    /\ last.exc = "KeyError"
    /\ listen_pc = "dead"

\* C25: a step that processes a frame whose type byte is not recognised
\* writes nothing and leaves the assigned channel, both channel lists, the
\* probe counter, the transmit queue and the decoded spa state as they
\* were: no field of the session object other than connection_state
\* changes.
C25_UnknownTypeDropped ==
    [][(last'.op = "listen" /\ last'.frame = UnknownFrame)
           => /\ written' = << >>
              /\ last'.exc = "none"
              /\ [spa' EXCEPT !.connection_state = spa.connection_state] = spa]_vars

\* C25, its case: the frame of unknown type has been processed by a
\* session that has discovered channels, active senders and a counter
\* under way
C25_UnknownAfterProbing ==
    /\ last.op = "listen"
    /\ last.frame = UnknownFrame
    /\ spa.discoveredChannels # << >>
    /\ spa.activeChannels # << >>
    /\ spa.detectChannelState > DETECT_CHANNEL_STATE_START
    /\ listen_pc = "loop"

\* C26: the status decoder never indexes past the end of a frame, and a
\* status frame too short for the mandatory fields is rejected with the
\* decoded spa state (time, temperatures, pumps, scale) left as it was.
C26_ShortStatusRejected ==
    [][(last'.op = "listen" /\ IsStatus(last'.frame))
           => /\ last'.exc # "IndexError"
              /\ last'.frame = ShortStatus
                     => /\ spa'.time_hour = spa.time_hour
                        /\ spa'.time_minute = spa.time_minute
                        /\ spa'.curtemp = spa.curtemp
                        /\ spa'.settemp = spa.settemp
                        /\ spa'.pump_status = spa.pump_status
                        /\ spa'.tempscale = spa.tempscale]_vars

\* C26, where it fails: the short status frame has been processed; the
\* decoder assigned the hour from its first bytes, then indexed past the
\* end, and the receive loop has ended with IndexError
C26_ShortStatusRaises ==
    /\ last.op = "listen"
    /\ last.frame = ShortStatus
    /\ decode(last.frame) = Slice(last.frame, 2, Len(last.frame) - 2)
    /\ last.exc = "IndexError"
    /\ spa.time_hour # InitSpa(dialect).time_hour
    /\ listen_pc = "dead"

\* C27: a call of the Sundance send_temp_change(t) leaves t as the pending
\* target when tmin <= t <= tmax and leaves the pending target as it was
\* otherwise; in both cases the call raises nothing, writes nothing and
\* leaves the transmit queue and every other field as they were.
C27_TargetOnlyInRange ==
    [][last'.op = "send_temp_change"
           => LET t == last'.arg[1]
              IN  /\ spa' = [spa EXCEPT !.targetTemp =
                                  IF tmin <= t /\ t <= tmax THEN t ELSE @]
                  /\ written' = << >>
                  /\ last'.exc = "none"]_vars

\* C27, its case: a temperature above tmax has been asked for while a target
\* in range was pending on a session with a channel, and that target is
\* still the pending one
C27_OutOfRangeKeepsTarget ==
    /\ last.op = "send_temp_change"
    /\ last.arg[1] > tmax
    /\ spa.targetTemp \in tmin..tmax
    /\ spa.channel # None
    /\ spa.queue = << >>
    /\ written = << >>

\* C28: a Sundance status frame enqueues at most one button press, and it
\* enqueues one only if at least CHECKS_BEFORE_RETRY status frames have been
\* processed since the status frame that enqueued the press before it.
C28_PressesSpacedOut ==
    [][(/\ last'.op = "listen"
        /\ IsStatus(last'.frame)
        /\ Len(spa'.queue) > Len(spa.queue))
           => /\ Len(spa'.queue) = Len(spa.queue) + 1
              /\ panel.quiet >= CHECKS_BEFORE_RETRY]_vars

\* C28, its case: a status frame has just enqueued a second temperature
\* press behind one that is still waiting for its grant
C28_SecondPressQueued ==
    /\ last.op = "listen"
    /\ IsStatus(last.frame)
    /\ panel.quiet = 0
    /\ Len(spa.queue) = 2
    /\ spa.queue[1] = button_codes.temp_up
    /\ spa.queue[2] = button_codes.temp_up

\* C30: with pump 1's pending target different from the pump state a status
\* frame reports, the connection up, a channel assigned, no temperature
\* target pending and the check counter above CHECKS_BEFORE_RETRY, the step
\* that processes the frame appends one button-press frame to the transmit
\* queue and raises nothing; and a status frame that reports the pump in
\* its target state clears the pending target.
C30_PumpPressQueued ==
    [][(/\ dialect = "sundance"
        /\ last'.op = "listen"
        /\ IsStatus(last'.frame)
        /\ D(spa.target_pump_status, 1) # NO_CHANGE_REQUESTED)
           => /\ (/\ D(spa'.pump_status, 1) # D(spa.target_pump_status, 1)
                  /\ spa.connected
                  /\ spa.channel # None
                  /\ spa.targetTemp = 2 * NO_CHANGE_REQUESTED
                  /\ spa.checkCounter > CHECKS_BEFORE_RETRY)
                     => /\ last'.exc = "none"
                        /\ Len(spa'.queue) = Len(spa.queue) + 1
                        /\ D(spa'.queue[Len(spa'.queue)], 4) = CC_REQ
              /\ D(spa'.pump_status, 1) = D(spa.target_pump_status, 1)
                     => D(spa'.target_pump_status, 1) = NO_CHANGE_REQUESTED]_vars

\* C30, where it fails: change_pump has recorded target 1 for pump 1, a
\* status frame that reports the pump off has been processed with a
\* channel assigned; send_CCmessage raised on the int it was given, the
\* queue is empty and the receive loop has ended
C30_PumpPressRaises ==
    /\ dialect = "sundance"
    /\ last.op = "listen"
    /\ IsStatus(last.frame)
    /\ last.exc = "AttributeError"
    /\ spa.connected
    /\ spa.channel = 7
    /\ D(spa.target_pump_status, 1) = 1
    /\ D(spa.pump_status, 1) = 0
    /\ spa.queue = << >>
    /\ listen_pc = "dead"

\* ------------------------------------------------ reconciliation, liveness
\* the bus of SpecRecon without pump requests. Transmit grants reach the
\* listen loop again and again: the loop reads every frame the controller
\* puts on the bus, and the controller polls the channel it assigned
NextReconLive ==
    \/ \E f \in {CAResp7, CTS7} : Listen(f)
    \/ \E pumps \in {0, 4} : PanelStatus(pumps)
    \/ \E ok \in BOOLEAN : SundanceConnect(ok)
    \/ \E t \in ReconTemps : Call_send_temp_change(t)

SpecReconLive == Init /\ [][NextReconLive]_vars /\ WF_vars(Listen(CTS7))

\* C29: if a temperature target the setpoint can take is pending, status
\* frames and transmit grants keep arriving and the controller moves its
\* setpoint one step per button press it receives, then eventually the
\* setpoint equals the target and the target is cleared to "no change
\* requested", and while it is cleared no temperature press is enqueued
C29_TargetReached ==
    /\ ([]<><<\E pumps \in {0, 4} : PanelStatus(pumps)>>_vars)
         => \A t \in ReconTemps \cap (tmin..tmax) :
              (spa.targetTemp = t /\ spa.connected /\ spa.channel # None)
                ~> (spa.settemp = t /\ spa.targetTemp = 2 * NO_CHANGE_REQUESTED)
    /\ [][(spa.targetTemp = 2 * NO_CHANGE_REQUESTED
             /\ spa'.targetTemp = 2 * NO_CHANGE_REQUESTED)
            => Len(spa'.queue) <= Len(spa.queue)]_vars

\* C29 witness: the setpoint has gone past a pending target, because a
\* second press was enqueued before the first was granted; the presses
\* back down overshoot in the same way
C29_Overshoot ==
    /\ dialect = "sundance"
    /\ listen_pc = "loop"
    /\ spa.targetTemp = PanelStart + 1
    /\ panel.set = PanelStart + 2
    /\ spa.settemp = PanelStart + 2

\* ------------------------------------------------------ listen_for_mtype
\* C31: process_message returns the type of every recognised message that
\* differs from the previous one of its type and None only when nothing
\* changed, so listen_for_mtype(t, n) returns t as soon as such a message of
\* type t is read, and reads at most n messages otherwise
C31_ReturnsTypeRead ==
    [][(lfm.pc = "reading" /\ lfm' # lfm /\ last'.op = "lfm_read"
          /\ last'.exc = "none")
       => LET f == last'.frame
              mtype == find_balboa_mtype(f)
              fresh == mtype # "None"
                         /\ has_changed(read_one_message(spa), f).changed
          IN  /\ fresh => lfm'.ret = mtype
              /\ lfm'.ret = "None" => ~fresh
              /\ (fresh /\ mtype = lfm.want)
                    => (lfm'.pc = "done" /\ lfm'.ret = lfm.want)
              /\ lfm'.left = lfm.left - 1
              /\ lfm'.left >= 0]_vars

\* C31 witness: listen_for_mtype(PLNK_STATUS_UPDATE, n) has read a status
\* frame that was decoded as new, and returned None after its last read
C31_StatusReadReturnsNone ==
    /\ lfm.pc = "done"
    /\ lfm.want = "PLNK_STATUS_UPDATE"
    /\ lfm.ret = "None"
    /\ lfm.left = 0
    /\ last.op = "lfm_read"
    /\ IsStatus(last.frame)
    /\ last.upd

\* ----------------------------------------------------- connection state
\* C32: the Jacuzzi connection state becomes Connected only from Connecting,
\* never directly from Disconnected, under any interleaving of the receive
\* loop and the supervisor
C32_ConnectedFromConnecting ==
    [][(dialect = "jacuzzi"
          /\ spa.connection_state # "Connected"
          /\ spa'.connection_state = "Connected")
       => spa.connection_state = "Connecting"]_vars

\* C33: whenever the Jacuzzi connection state is Connected the transport's
\* connected flag is true, at every point where another task can observe
\* the state
C33_ConnectedMeansUp ==
    (dialect = "jacuzzi" /\ spa.connection_state = "Connected") => spa.connected

\* C33 witness: a read of listen_for_mtype has failed and the call waits for
\* its next read, with the state still Connected on a connection flagged
\* as down
C33_DownButConnected ==
    /\ dialect = "jacuzzi"
    /\ last.op = "lfm_read_fail"
    /\ lfm.pc = "reading"
    /\ ~spa.connected
    /\ spa.connection_state = "Connected"

\* ------------------------------------------------- scale of a status frame
\* C34: after a Jacuzzi status frame is processed, the exposed current and
\* target temperatures are scaled by the temperature scale that frame
\* carries: they are the halved raw bytes exactly when the exposed scale
\* after the frame is Celsius, also when the frame changes the scale
C34_ScaleOfSameFrame ==
    [][(dialect = "jacuzzi" /\ last'.op = "listen" /\ IsStatus(last'.frame)
          /\ last'.upd)
       => LET rc == D(last'.frame, 12)
              rs == D(last'.frame, 14)
          IN  /\ rc # 255 => (spa'.curtemp = rc <=> spa'.tempscale = TSCALE_C)
              /\ spa'.settemp = rs <=> spa'.tempscale = TSCALE_C]_vars

\* C34 witness: after a Celsius frame, a frame that switches the scale to
\* Fahrenheit was decoded; its bytes 160 and 160 are exposed as 80.0 and
\* 80.0 next to the scale F
C34_HalvedUnderFahrenheit ==
    /\ dialect = "jacuzzi"
    /\ last.op = "listen"
    /\ last.frame = J_160_160
    /\ last.upd
    /\ Len(statlog) = 2
    /\ statlog[1].frame = J_142_140
    /\ statlog[1].upd
    /\ spa.tempscale = TSCALE_F
    /\ spa.curtemp = 160
    /\ spa.settemp = 160

\* ------------------------------------------------- the assigned channel
\* C35: once a channel has been assigned, the assigned channel never
\* changes and never reverts to unassigned for the rest of the session,
\* whatever frames are received afterwards
C35_ChannelIsFinal ==
    [][(dialect = "sundance" /\ spa.channel # None)
       => spa'.channel = spa.channel]_vars

\* C36: a ChannelAssignmentAck is emitted, and a channel adopted from a
\* ChannelAssignmentResponse, only after this client has itself emitted a
\* ChannelAssignmentRequest; a response received without an outstanding
\* request of this client is ignored
C36_AssignmentOnlyOnRequest ==
    [][(dialect = "sundance" /\ last'.op = "listen" /\ last'.frame # << >>
          /\ D(last'.frame, 4) = CHANNEL_ASSIGNMENT_RESPONSE /\ ~requested)
       => /\ spa'.channel = spa.channel
          /\ written' = << >>]_vars

\* C36 witness: a response was processed although the client had never
\* been through the probing that precedes a request; it holds the channel
\* and has written the acknowledgement
C36_UnrequestedAck ==
    /\ dialect = "sundance"
    /\ last.op = "listen"
    /\ last.frame = CAResp7
    /\ spa.detectChannelState < DETECT_CHANNEL_STATE_CHANNEL_NOT_FOUND
    /\ spa.channel = 7
    /\ written = <<EncodeFrame(<<7, 191, CHANNEL_ASSIGNMENT_ACK>>)>>

\* C37: every frame the Sundance engine writes in its transmit slot carries
\* the currently assigned channel in its channel byte, for every channel
\* value that arbitration can assign
C37_WrittenOnOwnChannel ==
    [][(dialect = "sundance" /\ last'.op = "listen" /\ last'.frame # << >>
          /\ D(last'.frame, 4) = CLEAR_TO_SEND)
       => \A i \in 1..Len(written') : D(written'[i], 2) = spa'.channel]_vars

\* C37 witness: on the grant for its channel 7 the session has written the
\* temp_up frame of button_codes, whose channel byte is 16
C37_PressOnChannel16 ==
    /\ dialect = "sundance"
    /\ last.op = "listen"
    /\ last.frame = CTS7
    /\ spa.channel = 7
    /\ written = <<button_codes.temp_up>>
    /\ D(button_codes.temp_up, 2) = 16

\* ------------------------------------------------- presses still waiting
\* C38: the Sundance reconciliation never enqueues a temperature button
\* press while a previously enqueued one is still waiting in the transmit
\* queue, so the queue never holds more than one pending temperature
\* press, however rarely transmit grants arrive
C38_OnePressWaiting ==
    [][(dialect = "sundance" /\ last'.op = "listen" /\ IsStatus(last'.frame)
          /\ Len(spa'.queue) > Len(spa.queue))
       => \A i \in 1..Len(spa.queue) :
              spa.queue[i] \notin {button_codes.temp_up, button_codes.temp_down}]_vars

\* C38 witness: the session holds channel 7, no grant has come since the
\* first press was enqueued, and a second press for the same step from
\* 34.5 to 35.0 waits behind it
C38_TwoPressesOneStep ==
    /\ dialect = "sundance"
    /\ spa.channel = 7
    /\ spa.targetTemp = PanelStart + 1
    /\ panel.set = PanelStart
    /\ spa.settemp = PanelStart
    /\ spa.queue = <<button_codes.temp_up, button_codes.temp_up>>

====
